---------------------------- MODULE Spec2Model ----------------------------
(***************************************************************************)
(* rack-director: DHCP responder (src/src/dhcp/server.rs), the in-memory   *)
(* IP pool (src/src/dhcp/pool.rs) and the TFTP transfer engine             *)
(* (src/src/tftp/state.rs, src/src/tftp/connection.rs).                    *)
(*                                                                         *)
(* Option<T> is modelled as a set with at most one element: None is {} and *)
(* Some(x) is {x}.  IPv4 addresses are their u32 value.                    *)
(***************************************************************************)
EXTENDS Integers, Sequences, FiniteSets, TLC

VARIABLES
    pc,            \* DhcpServer::start: "init" before initialize_pools, "serving" in serve_ipv4
    interfaces,    \* catalog table interfaces (rows in insertion order, id = rowid)
    dhcp_leases,   \* catalog table dhcp_leases (rows in insertion order)
    ip_pool,       \* IpPool.ipv4_pools: the Vec of Ipv4Pool buckets
    packet,        \* the datagram serve_ipv4 handled last ({} before the first)
    response,      \* the reply handle_ipv4_packet sent for it ({} when none)
    offered,       \* history: per MAC, the addresses OFFERed to it since its last
                   \*   REQUEST, RELEASE or DECLINE
    fresh,         \* history: MACs whose interface was created by their one DISCOVER
                   \*   and that have sent nothing since
    declined,      \* history: addresses declined during this server lifetime
    senders,       \* history: MACs that sent DISCOVER or REQUEST during this lifetime
    call,          \* the IpPool method called last, its argument and its result
    issued,        \* history: per bucket, the addresses allocate returned since the
                   \*   last release_ip
    conn,          \* Connection::accept: "new" (first datagram not yet handled),
                   \*   "open" (in the receive loop), "closed" (returned), "panicked"
    transfer,      \* State.state: the TransferState and the fields of Reading
    recv,          \* what the session handled last: a packet, or Timeout
    sent,          \* the packet written to the socket for it ({} when none)
    timeouts,      \* history: consecutive receive timeouts
    listener,      \* tftp::serve: "running", "failed" (returned Err) or "panicked"
    connections,   \* Router.connections: client address -> TransferState
    rin,           \* the datagram tftp::serve received last ({} before the first)
    wire,          \* the packets sent for it, in order, with the sending port
    input,         \* codec: the packet or buffer handed to the codec
    output,        \* codec: what the codec returned for it
    holding,       \* per task, the locks (db, ip_pool) it holds
    running,       \* per task, the lock operations left of the handler it runs
    migrations,    \* catalog table migrations: whether it exists, and its row's version
    applied,       \* history: the migrations execute_batch has run, in order
    devices,       \* catalog table devices (rows in insertion order)
    db_pc,         \* database::open: "closed", "insert" (table migrations created, row
                   \*   not yet inserted), "execute_batch", "update", "open" (returned Ok)
    db_version,    \* perform_migrations: the local `version`
    db_call        \* the device operation called last and whether it returned Ok

dhcpVars == <<pc, interfaces, dhcp_leases, ip_pool, packet, response, offered, fresh, declined, senders>>
poolVars == <<call, issued>>
tftpVars == <<conn, transfer, recv, sent, timeouts>>
routerVars == <<listener, connections, rin, wire>>
codecVars == <<input, output>>
lockVars == <<holding, running>>
dbVars == <<migrations, applied, devices, db_pc, db_version, db_call>>
dhcpVarsButPool == <<pc, interfaces, dhcp_leases, packet, response, offered, fresh, declined, senders>>

None == {}
Some(x) == {x}
Unwrap(o) == CHOOSE x \in o : TRUE

Min(S) == CHOOSE x \in S : \A y \in S : x <= y

RECURSIVE Pow2(_)
Pow2(n) == IF n = 0 THEN 1 ELSE 2 * Pow2(n - 1)

(***************************************************************************)
(* Addresses and the configured subnets                                    *)
(***************************************************************************)
Ip(a, b, c, d) == ((a * 256 + b) * 256 + c) * 256 + d

Unspecified == Ip(0, 0, 0, 0)

\* A u32 is kept as the integer with the same 32 bits (two's complement):
\* u32::MAX is -1.  U32Le is the order of u32.
U32Le(a, b) == IF (a >= 0) = (b >= 0) THEN a <= b ELSE a >= 0

\* ipnet::Ipv4Net as (addr, prefix_len); network(), broadcast(), contains()
Network(net) == net.addr - (net.addr % Pow2(32 - net.prefix_len))
Broadcast(net) == Network(net) + Pow2(32 - net.prefix_len) - 1
Contains(net, ip) == U32Le(Network(net), ip) /\ U32Le(ip, Broadcast(net))

\* The rows of the catalog table subnets (immutable configuration).
Subnets ==
    << [id |-> 1,
        network_ipv4 |-> Some([addr |-> Ip(10, 0, 0, 0), prefix_len |-> 30]),
        gateway_ipv4 |-> Some(Ip(10, 0, 0, 1)),
        dns_servers |-> <<Ip(8, 8, 8, 8)>>,
        lease_time |-> 3600] >>

server_ipv4 == Ip(10, 0, 0, 1)

Macs == {"aa:bb:cc:dd:ee:01", "aa:bb:cc:dd:ee:02"}

\* Addresses a client may put in option 50 or ciaddr: the subnet's two host
\* addresses and one address outside every subnet.
HostIps == {Ip(10, 0, 0, 1), Ip(10, 0, 0, 2)}
ClientIps == HostIps \cup {Ip(10, 0, 0, 9)}

(***************************************************************************)
(* IP pool (pool.rs)                                                       *)
(***************************************************************************)
Ipv4Pool_new(network, subnet_id) ==
    [network |-> network, subnet_id |-> subnet_id, allocated |-> {}]

add_subnet(pool, subnet) ==
    IF subnet.network_ipv4 # None
    THEN Append(pool, Ipv4Pool_new(Unwrap(subnet.network_ipv4), subnet.id))
    ELSE pool

\* Addresses a random pick is drawn from when the range of allocate is too
\* large to enumerate.
ProbeIps == {Ip(0, 0, 0, 1), Ip(10, 0, 0, 9)}

\* Mutant of Ipv4Pool::allocate: a random pick is returned without the
\* `!self.allocated.contains(&ip)` test.
Ipv4Pool_allocate_unchecked(p) ==
    LET start_ip == Network(p.network) + 1
        end_ip   == Broadcast(p.network) - 1
    IN  IF start_ip >= end_ip
        THEN {[ip |-> None, bucket |-> p, panicked |-> FALSE]}
        ELSE {[ip |-> Some(ip), bucket |-> [p EXCEPT !.allocated = @ \cup {ip}],
               panicked |-> FALSE]
                : ip \in start_ip .. end_ip}

\* Ipv4Pool::allocate in one build: the set of results (Option<ip>, bucket
\* after the call, whether the call panicked).
\* `u32::from(broadcast_addr) - 1` underflows when the broadcast address is
\* 0.0.0.0: a debug build panics, a release build wraps to u32::MAX.
\* A random pick that is not allocated is returned at once; the sequential
\* scan runs only when all picks hit allocated addresses, and what it finds
\* is an address a random pick can return too.
Ipv4Pool_allocate_build(p, build) ==
    LET start_ip == Network(p.network) + 1
        underflow == Broadcast(p.network) = 0
        end_ip   == Broadcast(p.network) - 1
        range    == IF underflow
                    THEN {ip \in ProbeIps : U32Le(start_ip, ip) /\ U32Le(ip, end_ip)}
                    ELSE start_ip .. end_ip
        free     == {ip \in range : ip \notin p.allocated}
        take(ip) == [ip |-> Some(ip), bucket |-> [p EXCEPT !.allocated = @ \cup {ip}],
                     panicked |-> FALSE]
        none     == [ip |-> None, bucket |-> p, panicked |-> FALSE]
        random   == {take(ip) : ip \in free}
        sequential ==
            IF range \ free = {} THEN {}
            ELSE IF free = {} THEN {none}
            ELSE {take(Min(free))}
    IN  IF underflow /\ build = "debug"
        THEN {[ip |-> None, bucket |-> p, panicked |-> TRUE]}
        ELSE IF ~U32Le(end_ip, start_ip) THEN random \cup sequential
        ELSE {none}

Ipv4Pool_allocate(p) ==
    Ipv4Pool_allocate_build(p, "debug") \cup Ipv4Pool_allocate_build(p, "release")

\* IpPool::allocate_ipv4 from the buckets i..Len(pool) in order (subnet_id = None).
RECURSIVE AllocateAny(_, _)
AllocateAny(pool, i) ==
    IF i > Len(pool) THEN {[ip |-> None, pool |-> pool, panicked |-> FALSE]}
    ELSE UNION {
        IF r.ip # None \/ r.panicked
        THEN {[ip |-> r.ip, pool |-> [pool EXCEPT ![i] = r.bucket],
               panicked |-> r.panicked]}
        ELSE AllocateAny(pool, i + 1)
        : r \in Ipv4Pool_allocate(pool[i]) }

allocate_ipv4(pool, subnet_id) ==
    IF subnet_id # None
    THEN LET found == {i \in 1..Len(pool) : pool[i].subnet_id = Unwrap(subnet_id)}
         IN  IF found # {}
             THEN LET i == Min(found)
                  IN  {[ip |-> r.ip, pool |-> [pool EXCEPT ![i] = r.bucket],
                        panicked |-> r.panicked]
                        : r \in Ipv4Pool_allocate(pool[i])}
             ELSE {[ip |-> None, pool |-> pool, panicked |-> FALSE]}
    ELSE AllocateAny(pool, 1)

release_ip(pool, ip) ==
    [i \in 1..Len(pool) |-> [pool[i] EXCEPT !.allocated = @ \ {ip}]]

\* The first bucket whose network contains ip (the loops of mark_used, is_available).
FirstContaining(pool, ip) == {i \in 1..Len(pool) :
    /\ Contains(pool[i].network, ip)
    /\ \A j \in 1..(i - 1) : ~Contains(pool[j].network, ip)}

mark_used(pool, ip) ==
    [i \in 1..Len(pool) |->
        IF i \in FirstContaining(pool, ip)
        THEN [pool[i] EXCEPT !.allocated = @ \cup {ip}]
        ELSE pool[i]]

is_available(pool, ip) ==
    \E i \in FirstContaining(pool, ip) : ip \notin pool[i].allocated


(***************************************************************************)
(* Catalog access of the DHCP server (server.rs)                           *)
(***************************************************************************)
\* SELECT ... FROM interfaces WHERE mac_address = ?1, first row
find_interface_by_mac(ifs, mac) ==
    LET rows == {i \in 1..Len(ifs) : ifs[i].mac_address = mac}
    IN  IF rows = {} THEN None ELSE Some(ifs[Min(rows)])

\* INSERT INTO interfaces (device_id, mac_address, is_bmc, rack_identifier,
\* rack_port): ipv4_address and subnet_id stay NULL; id = last_insert_rowid().
create_interface(ifs, mac) ==
    LET row == [id |-> Len(ifs) + 1, mac_address |-> mac,
                ipv4_address |-> None, subnet_id |-> None]
    IN  [interface |-> row, interfaces |-> Append(ifs, row)]

\* find_or_create_interface without the lookup: a row is inserted each time.
find_or_create_interface_always_creates(ifs, mac) == create_interface(ifs, mac)

find_or_create_interface(ifs, mac) ==
    LET found == find_interface_by_mac(ifs, mac)
    IN  IF found # None
        THEN [interface |-> Unwrap(found), interfaces |-> ifs]
        ELSE create_interface(ifs, mac)

\* UPDATE interfaces SET ipv4_address = ?1 ... WHERE id = ?3
update_interface_ip(ifs, interface, ipv4) ==
    [i \in 1..Len(ifs) |->
        IF ifs[i].id = interface.id THEN [ifs[i] EXCEPT !.ipv4_address = ipv4]
        ELSE ifs[i]]

\* SELECT ... FROM subnets WHERE id = ?1 (None when the interface has no subnet_id)
get_subnet_for_interface(interface) ==
    IF interface.subnet_id = None THEN None
    ELSE LET rows == {i \in 1..Len(Subnets) : Subnets[i].id = Unwrap(interface.subnet_id)}
         IN  IF rows = {} THEN None ELSE Some(Subnets[Min(rows)])

\* INSERT INTO dhcp_leases (..., is_active) VALUES (..., true)
create_lease(leases, interface, ip) ==
    Append(leases, [interface_id |-> interface.id,
                    subnet_id |-> IF interface.subnet_id = None THEN 0
                                  ELSE Unwrap(interface.subnet_id),
                    ip_address |-> ip,
                    is_active |-> TRUE])

\* UPDATE dhcp_leases SET is_active = FALSE WHERE interface_id = ?1 AND ip_address = ?2
release_lease(leases, interface, ip) ==
    [i \in 1..Len(leases) |->
        IF leases[i].interface_id = interface.id /\ leases[i].ip_address = ip
        THEN [leases[i] EXCEPT !.is_active = FALSE]
        ELSE leases[i]]

(***************************************************************************)
(* DHCP handlers (server.rs).  A handler maps the catalog and pool         *)
(*   c = [interfaces, dhcp_leases, ip_pool]                                *)
(* and a datagram to the set of its possible results (the same fields plus *)
(* the response, None when nothing is sent).                               *)
(***************************************************************************)
Result(ifs, leases, pool, resp) ==
    [interfaces |-> ifs, dhcp_leases |-> leases, ip_pool |-> pool, response |-> resp]

\* The option codes the "Add subnet options" block inserts.
SubnetOptions(interface) ==
    LET subnet == get_subnet_for_interface(interface)
    IN  IF subnet = None THEN {}
        ELSE LET s == Unwrap(subnet)
             IN  (IF s.gateway_ipv4 # None THEN {3} ELSE {})
                 \cup (IF s.network_ipv4 # None THEN {1} ELSE {})
                 \cup (IF Len(s.dns_servers) > 0 THEN {6} ELSE {})
                 \cup {51}

\* enum DhcpMessageType: the value option 53 carries.
DhcpMessageType ==
    [DISCOVER |-> 1, OFFER |-> 2, REQUEST |-> 3, DECLINE |-> 4,
     ACK |-> 5, NAK |-> 6, RELEASE |-> 7, INFORM |-> 8]

Reply(type, p, yiaddr, siaddr, interface) ==
    [op |-> 2, type |-> type, chaddr |-> p.chaddr, yiaddr |-> yiaddr, siaddr |-> siaddr,
     options |-> {53, 54} \cup (IF type = "NAK" THEN {} ELSE SubnetOptions(interface))]

\* (No prefix of Subnets has the broadcast address 0.0.0.0, so allocate_ipv4
\* does not panic under handle_discover.)
handle_discover(c, p) ==
    LET foc == find_or_create_interface(c.interfaces, p.chaddr)
        interface == foc.interface
        offer(ip) == Some(Reply("OFFER", p, ip, server_ipv4, interface))
    IN  IF interface.ipv4_address # None
        THEN {Result(foc.interfaces, c.dhcp_leases, c.ip_pool,
                     offer(Unwrap(interface.ipv4_address)))}
        ELSE {IF a.ip # None
              THEN Result(foc.interfaces, c.dhcp_leases, a.pool, offer(Unwrap(a.ip)))
              ELSE Result(foc.interfaces, c.dhcp_leases, a.pool, None)
                : a \in allocate_ipv4(c.ip_pool, interface.subnet_id)}

\* "Get requested IP address": option 50, else a specified ciaddr, else none.
\* requested_ip without the drop: the ciaddr is taken even when unspecified.
requested_ip_or_ciaddr(p) == IF p.opt50 # None THEN p.opt50 ELSE Some(p.ciaddr)

requested_ip(p) ==
    IF p.opt50 # None THEN p.opt50
    ELSE IF p.ciaddr # Unspecified THEN Some(p.ciaddr)
    ELSE None

\* Mutant of handle_request: the `interface.ipv4_address != Some(requested_ip)`
\* half of the validation is left out.
handle_request_pool_only(c, p) ==
    IF requested_ip(p) = None
    THEN {Result(c.interfaces, c.dhcp_leases, c.ip_pool, None)}
    ELSE
    LET ip == Unwrap(requested_ip(p))
        foc == find_or_create_interface(c.interfaces, p.chaddr)
        interface == foc.interface
    IN  IF ~is_available(c.ip_pool, ip)
        THEN {Result(foc.interfaces, c.dhcp_leases, c.ip_pool,
                     Some(Reply("NAK", p, Unspecified, Unspecified, interface)))}
        ELSE {Result(update_interface_ip(foc.interfaces, interface, Some(ip)),
                     create_lease(c.dhcp_leases, interface, ip),
                     c.ip_pool,
                     Some(Reply("ACK", p, ip, server_ipv4, interface)))}

handle_request(c, p) ==
    IF requested_ip(p) = None
    THEN {Result(c.interfaces, c.dhcp_leases, c.ip_pool, None)}
    ELSE
    LET ip == Unwrap(requested_ip(p))
        foc == find_or_create_interface(c.interfaces, p.chaddr)
        interface == foc.interface
    IN  IF ~is_available(c.ip_pool, ip) /\ interface.ipv4_address # Some(ip)
        THEN {Result(foc.interfaces, c.dhcp_leases, c.ip_pool,
                     Some(Reply("NAK", p, Unspecified, Unspecified, interface)))}
        ELSE {Result(update_interface_ip(foc.interfaces, interface, Some(ip)),
                     create_lease(c.dhcp_leases, interface, ip),
                     c.ip_pool,
                     Some(Reply("ACK", p, ip, server_ipv4, interface)))}

\* Mutant of handle_release: the release_lease call is left out.
handle_release_keeps_lease(c, p) ==
    LET found == find_interface_by_mac(c.interfaces, p.chaddr)
    IN  IF found # None /\ Unwrap(found).ipv4_address # None
        THEN LET interface == Unwrap(found)
                 ip == Unwrap(interface.ipv4_address)
             IN  {Result(update_interface_ip(c.interfaces, interface, None),
                         c.dhcp_leases,
                         release_ip(c.ip_pool, ip),
                         None)}
        ELSE {Result(c.interfaces, c.dhcp_leases, c.ip_pool, None)}

handle_release(c, p) ==
    LET found == find_interface_by_mac(c.interfaces, p.chaddr)
    IN  IF found # None /\ Unwrap(found).ipv4_address # None
        THEN LET interface == Unwrap(found)
                 ip == Unwrap(interface.ipv4_address)
             IN  {Result(update_interface_ip(c.interfaces, interface, None),
                         release_lease(c.dhcp_leases, interface, ip),
                         release_ip(c.ip_pool, ip),
                         None)}
        ELSE {Result(c.interfaces, c.dhcp_leases, c.ip_pool, None)}

handle_decline(c, p) ==
    IF p.opt50 # None
    THEN {Result(c.interfaces, c.dhcp_leases, mark_used(c.ip_pool, Unwrap(p.opt50)), None)}
    ELSE {Result(c.interfaces, c.dhcp_leases, c.ip_pool, None)}

(***************************************************************************)
(* The DHCP server as a state machine                                      *)
(***************************************************************************)
MaxLeases == 2    \* rows of dhcp_leases explored (REQUESTs stop being sent then)

Catalog == [interfaces |-> interfaces, dhcp_leases |-> dhcp_leases, ip_pool |-> ip_pool]

Datagram(type, mac, ciaddr, opt50) ==
    [type |-> type, chaddr |-> mac, ciaddr |-> ciaddr, opt50 |-> opt50]

Discovers == {Datagram("DISCOVER", m, Unspecified, None) : m \in Macs}
\* REQUEST: with option 50; without it and with ciaddr set; with neither.
Requests  == {Datagram("REQUEST", m, Unspecified, Some(ip)) : m \in Macs, ip \in ClientIps}
             \cup {Datagram("REQUEST", m, ci, None) :
                     m \in Macs, ci \in {Unspecified, Ip(10, 0, 0, 2)}}
Releases  == {Datagram("RELEASE", m, Unspecified, None) : m \in Macs}
Declines  == {Datagram("DECLINE", m, Unspecified, o) :
                m \in Macs, o \in {None} \cup {Some(ip) : ip \in HostIps}}

\* Datagrams with no option 53 ("none"), and those of the message types the
\* `_` arm of handle_ipv4_packet takes.
Ignored   == {Datagram(type, m, Unspecified, None) :
                type \in {"none", "INFORM", "OFFER", "ACK", "NAK"}, m \in Macs}

NoOffers == [m \in Macs |-> {}]

DhcpInit ==
    /\ pc = "init"
    /\ interfaces = <<>>
    /\ dhcp_leases = <<>>
    /\ ip_pool = <<>>
    /\ packet = None
    /\ response = None
    /\ offered = NoOffers
    /\ fresh = {}
    /\ declined = {}
    /\ senders = {}

PoolApiInit ==
    /\ call = None
    /\ issued = <<>>

\* DhcpServer::initialize_pools: one add_subnet per row of subnets.
RECURSIVE AddSubnets(_, _)
AddSubnets(pool, i) ==
    IF i > Len(Subnets) THEN pool ELSE AddSubnets(add_subnet(pool, Subnets[i]), i + 1)

initialize_pools ==
    /\ pc = "init"
    /\ pc' = "serving"
    /\ ip_pool' = AddSubnets(ip_pool, 1)
    /\ UNCHANGED <<interfaces, dhcp_leases, packet, response, offered, fresh, declined, senders>>
    /\ UNCHANGED <<poolVars, tftpVars, routerVars, codecVars, lockVars, dbVars>>

\* handle_ipv4_packet with the result r of the handler the message type selects.
Handled(p, r) ==
    /\ interfaces' = r.interfaces
    /\ dhcp_leases' = r.dhcp_leases
    /\ ip_pool' = r.ip_pool
    /\ packet' = Some(p)
    /\ response' = r.response
    /\ UNCHANGED pc
    /\ UNCHANGED <<poolVars, tftpVars, routerVars, codecVars, lockVars, dbVars>>

RecvDiscover ==
    /\ pc = "serving"
    /\ \E p \in Discovers : \E r \in handle_discover(Catalog, p) :
        /\ Handled(p, r)
        /\ offered' = IF r.response # None
                      THEN [offered EXCEPT ![p.chaddr] = @ \cup {Unwrap(r.response).yiaddr}]
                      ELSE offered
        /\ fresh' = IF find_interface_by_mac(interfaces, p.chaddr) = None
                    THEN fresh \cup {p.chaddr}
                    ELSE fresh \ {p.chaddr}
        /\ senders' = senders \cup {p.chaddr}
        /\ UNCHANGED declined

RecvRequest ==
    /\ pc = "serving"
    /\ Len(dhcp_leases) < MaxLeases
    /\ \E p \in Requests : \E r \in handle_request(Catalog, p) :
        /\ Handled(p, r)
        /\ offered' = [offered EXCEPT ![p.chaddr] = {}]
        /\ fresh' = fresh \ {p.chaddr}
        /\ senders' = senders \cup {p.chaddr}
        /\ UNCHANGED declined

RecvRelease ==
    /\ pc = "serving"
    /\ \E p \in Releases : \E r \in handle_release(Catalog, p) :
        /\ Handled(p, r)
        /\ offered' = [offered EXCEPT ![p.chaddr] = {}]
        /\ fresh' = fresh \ {p.chaddr}
        /\ UNCHANGED <<declined, senders>>

RecvDecline ==
    /\ pc = "serving"
    /\ \E p \in Declines : \E r \in handle_decline(Catalog, p) :
        /\ Handled(p, r)
        /\ offered' = [offered EXCEPT ![p.chaddr] = {}]
        /\ fresh' = fresh \ {p.chaddr}
        /\ declined' = declined \cup p.opt50
        /\ UNCHANGED senders

\* handle_ipv4_packet for a datagram without option 53 (Err "No message
\* type", which serve_ipv4 logs) and for the other message types (Ok(())).
RecvIgnored ==
    /\ pc = "serving"
    /\ \E p \in Ignored :
        /\ packet' = Some(p)
        /\ response' = None
        /\ fresh' = fresh \ {p.chaddr}
    /\ UNCHANGED <<pc, interfaces, dhcp_leases, ip_pool, offered, declined, senders>>
    /\ UNCHANGED <<poolVars, tftpVars, routerVars, codecVars, lockVars, dbVars>>

\* The process stops and is started again: the catalog (the database file)
\* persists, DhcpServer::new builds an empty IpPool.
Restart ==
    /\ pc = "serving"
    /\ pc' = "init"
    /\ ip_pool' = <<>>
    /\ packet' = None
    /\ response' = None
    /\ offered' = NoOffers
    /\ fresh' = {}
    /\ declined' = {}
    /\ senders' = {}
    /\ UNCHANGED <<interfaces, dhcp_leases>>
    /\ UNCHANGED <<poolVars, tftpVars, routerVars, codecVars, lockVars, dbVars>>

(***************************************************************************)
(* The IpPool API driven directly: any sequence of add_subnet,             *)
(* allocate_ipv4, release_ip and mark_used calls                           *)
(***************************************************************************)
MaxBuckets == 2   \* buckets registered with add_subnet

\* Subnets handed to add_subnet: two with the same IPv4 prefix and different
\* ids, one without IPv4 prefix, a /31, the /32 of address 0.0.0.0 and the
\* /32 of a host address.
PoolSubnets ==
    { [id |-> 1, network_ipv4 |-> Some([addr |-> Ip(10, 0, 0, 0), prefix_len |-> 30])],
      [id |-> 2, network_ipv4 |-> Some([addr |-> Ip(10, 0, 0, 0), prefix_len |-> 30])],
      [id |-> 3, network_ipv4 |-> None],
      [id |-> 4, network_ipv4 |-> Some([addr |-> Ip(10, 0, 0, 4), prefix_len |-> 31])],
      [id |-> 5, network_ipv4 |-> Some([addr |-> Ip(0, 0, 0, 0), prefix_len |-> 32])],
      [id |-> 6, network_ipv4 |-> Some([addr |-> Ip(10, 0, 0, 9), prefix_len |-> 32])] }

SubnetIds == {None} \cup {Some(s.id) : s \in PoolSubnets}

\* The bucket an allocate_ipv4 result a was taken from: the one that changed.
TakenFrom(pool, a) == {i \in 1..Len(pool) : a.pool[i] # pool[i]}

PoolAddSubnet ==
    /\ Len(ip_pool) < MaxBuckets
    /\ \E s \in PoolSubnets :
        /\ ip_pool' = add_subnet(ip_pool, s)
        /\ issued' = IF Len(ip_pool') > Len(ip_pool) THEN Append(issued, {}) ELSE issued
        /\ call' = Some([op |-> "add_subnet", arg |-> Some(s.id), result |-> None,
                          panicked |-> FALSE])
    /\ UNCHANGED <<dhcpVarsButPool, tftpVars, routerVars, codecVars, lockVars, dbVars>>

PoolAllocate ==
    /\ \E sid \in SubnetIds : \E a \in allocate_ipv4(ip_pool, sid) :
        /\ ip_pool' = a.pool
        /\ issued' = [i \in 1..Len(issued) |->
                          IF i \in TakenFrom(ip_pool, a) THEN issued[i] \cup a.ip
                          ELSE issued[i]]
        /\ call' = Some([op |-> "allocate_ipv4", arg |-> sid, result |-> a.ip,
                          panicked |-> a.panicked])
    /\ UNCHANGED <<dhcpVarsButPool, tftpVars, routerVars, codecVars, lockVars, dbVars>>

PoolRelease ==
    /\ \E ip \in ClientIps \cup ProbeIps :
        /\ ip_pool' = release_ip(ip_pool, ip)
        /\ issued' = [i \in 1..Len(issued) |-> {}]
        /\ call' = Some([op |-> "release_ip", arg |-> Some(ip), result |-> None,
                          panicked |-> FALSE])
    /\ UNCHANGED <<dhcpVarsButPool, tftpVars, routerVars, codecVars, lockVars, dbVars>>

PoolMarkUsed ==
    /\ \E ip \in ClientIps :
        /\ ip_pool' = mark_used(ip_pool, ip)
        /\ call' = Some([op |-> "mark_used", arg |-> Some(ip), result |-> None,
                          panicked |-> FALSE])
    /\ UNCHANGED issued
    /\ UNCHANGED <<dhcpVarsButPool, tftpVars, routerVars, codecVars, lockVars, dbVars>>

(***************************************************************************)
(* TFTP transfer engine (tftp/state.rs), its reader (director/mod.rs) and  *)
(* the session loop (tftp/connection.rs)                                   *)
(***************************************************************************)
BlockSize == 512      \* handle_ack: a payload shorter than this ends the transfer
ChunkSize == 512      \* DirectorTftpReader::read: vec![0; 512]
U16Max == 65535       \* block numbers are u16

MaxTimeouts == 5      \* consecutive receive timeouts explored

\* Lengths of the files in the TFTP root.
FileLens == {0, 100, 512, 1000, 1024}

Whitelist == {"ipxe.efi", "undionly.kpxe"}
Filenames == {"ipxe.efi", "boot.cfg"}

\* A payload: len bytes, the first n of them are the n file bytes that follow
\* the point where rem bytes of the file were left; the others are zero.
Payload(len, n, rem) == [len |-> len, n |-> n, rem |-> IF n = 0 THEN 0 ELSE rem]
NoData == Payload(0, 0, 0)

\* DirectorTftpReader::read on a reader with `remaining` bytes left: a buffer of
\* ChunkSize bytes is returned whatever number of bytes file.read() stored.
Reader_read(remaining) ==
    LET n == IF remaining < ChunkSize THEN remaining ELSE ChunkSize
    IN  [data |-> Payload(ChunkSize, n, remaining), reader |-> remaining - n]

Transfer(state, block, data, reader) ==
    [state |-> state, block |-> block, data |-> data, reader |-> reader]

Uninitialized == Transfer("Uninitialized", 0, NoData, 0)
Complete == Transfer("Complete", 0, NoData, 0)

Rrq(filename) == [op |-> "RRQ", filename |-> filename]
Wrq(filename) == [op |-> "WRQ", filename |-> filename]
Data(block, data) == [op |-> "DATA", block |-> block, data |-> data]
Ack(block) == [op |-> "ACK", block |-> block]
Error(code, message) == [op |-> "ERROR", code |-> code, message |-> message]
Timeout == [op |-> "TIMEOUT"]   \* no packet: the receive timed out

\* What State::handle returns, with the state it leaves: the ControlFlow
\* ("Continue" or "Closed", and its packet), the number of Reader::read
\* calls made, and whether the call panicked instead of returning.
HandleResponse(t, flow, reply, reads) ==
    [transfer |-> t, flow |-> flow, reply |-> reply, reads |-> reads, panicked |-> FALSE]
Panicked(t) ==
    [transfer |-> t, flow |-> "Closed", reply |-> None, reads |-> 0, panicked |-> TRUE]

\* The Err(e) arm of State::handle: no next_state, ERROR{Undefined} is sent.
InternalError(t) ==
    HandleResponse(t, "Closed", Some(Error("Undefined", "internal error occured")), 0)

\* State::error and State::close
error(t) == HandleResponse(Complete, "Closed", Some(Error("IllegalOperation", "")), 0)
close(t) == HandleResponse(Complete, "Closed", None, 0)

\* handle_read_request; create_reader succeeds for a whitelisted name whose
\* file can be opened (length len), and fails otherwise.
handle_read_request(t, filename) ==
    (IF filename \in Whitelist
     THEN {LET r == Reader_read(len)
           IN  HandleResponse(Transfer("Reading", 0, r.data, r.reader),
                        "Continue", Some(Data(0, r.data)), 1)
             : len \in FileLens}
     ELSE {})
    \cup {InternalError(t)}

\* handle_ack in one build: u16 arithmetic panics on overflow in a debug
\* build and wraps in a release build.
handle_ack_build(t, acked_block, build) ==
    IF t.block + 1 > U16Max /\ build = "debug" THEN Panicked(t)
    ELSE
    LET next_block == (t.block + 1) % (U16Max + 1)
    IN  IF acked_block = t.block
        THEN IF t.data.len < BlockSize
             THEN HandleResponse(Complete, "Closed", None, 0)
             ELSE LET r == Reader_read(t.reader)
                  IN  HandleResponse(Transfer("Reading", next_block, r.data, r.reader),
                               "Continue",
                               Some(Data((acked_block + 1) % (U16Max + 1), r.data)), 1)
        ELSE IF t.block - 1 < 0 /\ build = "debug" THEN Panicked(t)
        ELSE IF acked_block = (t.block - 1) % (U16Max + 1)
             THEN IF acked_block + 1 > U16Max /\ build = "debug" THEN Panicked(t)
                  ELSE HandleResponse(t, "Continue",
                                Some(Data((acked_block + 1) % (U16Max + 1), t.data)), 0)
             ELSE InternalError(t)

handle_ack(t, acked_block) ==
    {handle_ack_build(t, acked_block, build) : build \in {"debug", "release"}}

\* State::handle
handle(t, p) ==
    IF t.state = "Uninitialized"
    THEN IF p.op = "RRQ" THEN handle_read_request(t, p.filename) ELSE {error(t)}
    ELSE IF t.state = "Reading"
    THEN IF p.op = "ACK" THEN handle_ack(t, p.block)
         ELSE IF p.op = "ERROR" THEN {close(t)}
         ELSE {error(t)}
    ELSE {error(t)}

\* State::handle_timeout
handle_timeout(t) ==
    IF t.state = "Reading"
    THEN HandleResponse(t, "Continue", Some(Data(t.block, t.data)), 0)
    ELSE HandleResponse(t, "Closed", None, 0)

\* Packets a client sends to a session at block b: the ACK numbers around b
\* and at both ends of the u16 range, and one packet of every other kind.
AckNumbers(b) == {b, (b - 1) % (U16Max + 1), (b + 1) % (U16Max + 1), 0, U16Max}
ClientPackets(b) ==
    {Ack(n) : n \in AckNumbers(b)}
    \cup {Error("Undefined", ""), Data(1, NoData), Rrq("ipxe.efi"), Wrq("ipxe.efi")}
FirstPackets ==
    {Rrq(f) : f \in Filenames} \cup {Wrq("ipxe.efi"), Ack(0), Data(1, NoData),
                                      Error("Undefined", "")}

TftpInit ==
    /\ conn = "new"
    /\ transfer = Uninitialized
    /\ recv = None
    /\ sent = None
    /\ timeouts = 0

\* Connection::handle / Connection::timeout with the result h of the state
\* machine: the reply is sent; Closed, or a panic, ends the session and drops
\* its State (the variant it was left in is kept).
Session(h) ==
    /\ sent' = h.reply
    /\ conn' = IF h.panicked THEN "panicked"
               ELSE IF h.flow = "Closed" THEN "closed" ELSE "open"
    /\ transfer' = IF h.panicked \/ h.flow = "Closed"
                   THEN Transfer(h.transfer.state, 0, NoData, 0)
                   ELSE h.transfer

\* Connection::accept: the datagram that opened the session.
TftpAccept ==
    /\ conn = "new"
    /\ \E p \in FirstPackets : \E h \in handle(transfer, p) :
        /\ Session(h)
        /\ recv' = Some(p)
    /\ timeouts' = 0
    /\ UNCHANGED <<dhcpVars, poolVars, routerVars, codecVars, lockVars, dbVars>>

\* The receive loop: Ok(Ok(size)), a packet arrived in time.
TftpRecv ==
    /\ conn = "open"
    /\ \E p \in ClientPackets(transfer.block) : \E h \in handle(transfer, p) :
        /\ Session(h)
        /\ recv' = Some(p)
    /\ timeouts' = 0
    /\ UNCHANGED <<dhcpVars, poolVars, routerVars, codecVars, lockVars, dbVars>>

\* The receive loop: Err(_), no packet within the timeout.
TftpTimeout ==
    /\ conn = "open"
    /\ timeouts < MaxTimeouts
    /\ Session(handle_timeout(transfer))
    /\ recv' = Some(Timeout)
    /\ timeouts' = timeouts + 1
    /\ UNCHANGED <<dhcpVars, poolVars, routerVars, codecVars, lockVars, dbVars>>

(***************************************************************************)
(* TFTP listener (tftp/mod.rs): serve and the Router it drives.  Sessions  *)
(* are the entries of Router.connections, keyed by the client's socket     *)
(* address; every packet leaves through the listening socket.              *)
(***************************************************************************)
ListenPort == 57        \* Server::new: "0.0.0.0:57"
MaxRouterBlock == 1     \* block numbers explored per session of the Router

\* Client socket addresses: two ports of one host and one of another.
Addrs == {"10.0.0.2:1024", "10.0.0.2:1025", "10.0.0.3:1024"}

\* A datagram for which Packet::parse returns Err (e.g. one byte, or an
\* opcode outside 1..5).
Garbage == [op |-> "GARBAGE"]

can_initiate(p) == p.op \in {"RRQ", "WRQ"}

\* socket.send_to(&packet.to_bytes(), addr) on the listening socket
SendTo(addr, p) == [from |-> ListenPort, to |-> addr, packet |-> p]

NoConnections == [a \in {} |-> Uninitialized]
Insert(conns, addr, t) ==
    [a \in DOMAIN conns \cup {addr} |-> IF a = addr THEN t ELSE conns[a]]
Remove(conns, addr) == [a \in DOMAIN conns \ {addr} |-> conns[a]]

Routed(conns, w, outcome) == [connections |-> conns, wire |-> w, outcome |-> outcome]

\* Router::route: the set of results (connections after the call, packets
\* sent, and "ok" or "panicked").  `get_mut(&addr).unwrap()` panics when the
\* address has no entry.
route(conns, addr, p) ==
    LET known == addr \in DOMAIN conns
        inserted == IF ~known /\ can_initiate(p)
                    THEN Insert(conns, addr, Uninitialized) ELSE conns
        first == IF ~known /\ ~can_initiate(p)
                 THEN <<SendTo(addr, Error("UnknownTransferID", ""))>> ELSE <<>>
    IN  IF addr \notin DOMAIN inserted
        THEN {Routed(inserted, first, "panicked")}
        ELSE {IF h.panicked THEN Routed(inserted, first, "panicked")
              ELSE Routed(IF h.flow = "Closed" THEN Remove(inserted, addr)
                          ELSE Insert(inserted, addr, h.transfer),
                          IF h.reply # None
                          THEN Append(first, SendTo(addr, Unwrap(h.reply))) ELSE first,
                          "ok")
                : h \in handle(inserted[addr], p)}

\* One turn of the loop of serve: recv_from, Packet::parse(..)?, route(..)?
serve(conns, addr, payload) ==
    IF payload = Garbage
    THEN {[listener |-> "failed", connections |-> conns, wire |-> <<>>]}
    ELSE {[listener |-> IF r.outcome = "ok" THEN "running" ELSE r.outcome,
           connections |-> r.connections, wire |-> r.wire]
            : r \in route(conns, addr, payload)}

\* Datagrams sent to the listening port.
RouterPackets ==
    {Rrq(f) : f \in Filenames}
    \cup {Ack(n) : n \in 0..(MaxRouterBlock + 1)}
    \cup {Wrq("ipxe.efi"), Data(1, NoData), Error("Undefined", ""), Garbage}

RouterInit ==
    /\ listener = "running"
    /\ connections = NoConnections
    /\ rin = None
    /\ wire = <<>>

RouterRecv ==
    /\ listener = "running"
    /\ \E addr \in Addrs : \E payload \in RouterPackets :
        \E r \in serve(connections, addr, payload) :
            /\ \A a \in DOMAIN r.connections :
                  r.connections[a].block <= MaxRouterBlock
            /\ listener' = r.listener
            /\ connections' = r.connections
            /\ wire' = r.wire
            /\ rin' = Some([addr |-> addr, payload |-> payload])
    /\ UNCHANGED <<dhcpVars, poolVars, tftpVars, codecVars, lockVars, dbVars>>

(***************************************************************************)
(* The TFTP codec (tftp/packet.rs), byte by byte                           *)
(*                                                                         *)
(* A buffer is a sequence of bytes 0..255.  A String is the sequence of    *)
(* its UTF-8 bytes.  A packet is a record with the fields of its variant:  *)
(* [op, filename, mode], [op, block, data], [op, block] or                 *)
(* [op, code, message]; an Error is [name] or [name |-> "Unknown", code].  *)
(***************************************************************************)
Replacement == <<239, 191, 189>>      \* U+FFFD in UTF-8 (EF BF BD)

\* String::from_utf8_lossy for buffers whose bytes above 0x7F are EF, a
\* continuation byte (80..BF) or FF: a byte below 0x80 is kept, EF followed
\* by two continuation bytes is kept, and every maximal invalid part becomes
\* U+FFFD.
RECURSIVE from_utf8_lossy(_)
from_utf8_lossy(b) ==
    LET IsContinuation(x) == x \in 128..191
    IN  IF b = <<>> THEN <<>>
        ELSE IF b[1] < 128 THEN <<b[1]>> \o from_utf8_lossy(Tail(b))
        ELSE IF b[1] = 239 /\ Len(b) >= 3 /\ IsContinuation(b[2]) /\ IsContinuation(b[3])
             THEN SubSeq(b, 1, 3) \o from_utf8_lossy(SubSeq(b, 4, Len(b)))
        ELSE IF b[1] = 239 /\ Len(b) >= 2 /\ IsContinuation(b[2])
             THEN Replacement \o from_utf8_lossy(SubSeq(b, 3, Len(b)))
        ELSE Replacement \o from_utf8_lossy(Tail(b))

\* tftp::packet::Error and its conversions from and to u16
ErrorNames == <<"Undefined", "FileNotFound", "AccessViolation", "DiskFull",
                "IllegalOperation", "UnknownTransferID", "FileAlreadyExists",
                "NoSuchUser">>
Error_from_u16(value) ==
    IF value < Len(ErrorNames) THEN [name |-> ErrorNames[value + 1]]
    ELSE [name |-> "Unknown", code |-> value]
u16_from_Error(e) ==
    IF e.name = "Unknown" THEN e.code
    ELSE (CHOOSE i \in 1..Len(ErrorNames) : ErrorNames[i] = e.name) - 1

\* write_u16 appends the big-endian bytes, write_string the bytes of the
\* string and then the character '0' (0x30).
write_u16(buf, data) == buf \o <<data \div 256, data % 256>>
write_string(buf, data) == Append(buf \o data, 48)

\* read_u16 and read_string return None for Err, else (value, remainder).
read_u16(data) ==
    IF Len(data) >= 2
    THEN Some([value |-> data[1] * 256 + data[2], remainder |-> SubSeq(data, 3, Len(data))])
    ELSE None
read_string(data) ==
    IF \E i \in 1..Len(data) : data[i] = 0
    THEN LET terminator_position == Min({i \in 1..Len(data) : data[i] = 0})
         IN  Some([value |-> from_utf8_lossy(SubSeq(data, 1, terminator_position - 1)),
                   remainder |-> SubSeq(data, terminator_position + 1, Len(data))])
    ELSE None

parse_rrq(data) ==
    LET filename == read_string(data)
    IN  IF filename = None THEN None
        ELSE LET mode == read_string(Unwrap(filename).remainder)
             IN  IF mode = None THEN None
                 ELSE Some([op |-> "RRQ", filename |-> Unwrap(filename).value,
                            mode |-> Unwrap(mode).value])

parse_wrq(data) ==
    LET filename == read_string(data)
    IN  IF filename = None THEN None
        ELSE LET mode == read_string(Unwrap(filename).remainder)
             IN  IF mode = None THEN None
                 ELSE Some([op |-> "WRQ", filename |-> Unwrap(filename).value,
                            mode |-> Unwrap(mode).value])

parse_data(data) ==
    LET block == read_u16(data)
    IN  IF block = None THEN None
        ELSE Some([op |-> "DATA", block |-> Unwrap(block).value,
                   data |-> Unwrap(block).remainder])

parse_ack(data) ==
    LET block == read_u16(data)
    IN  IF block = None THEN None ELSE Some([op |-> "ACK", block |-> Unwrap(block).value])

parse_error(data) ==
    LET code == read_u16(data)
    IN  IF code = None THEN None
        ELSE LET message == read_string(Unwrap(code).remainder)
             IN  IF message = None THEN None
                 ELSE Some([op |-> "ERROR", code |-> Error_from_u16(Unwrap(code).value),
                            message |-> Unwrap(message).value])

\* Packet::parse (parse_opcode is read_u16): None for Err, else the packet.
Packet_parse(data) ==
    LET opcode == read_u16(data)
    IN  IF opcode = None THEN None
        ELSE LET remainder == Unwrap(opcode).remainder
             IN  CASE Unwrap(opcode).value = 1 -> parse_rrq(remainder)
                   [] Unwrap(opcode).value = 2 -> parse_wrq(remainder)
                   [] Unwrap(opcode).value = 3 -> parse_data(remainder)
                   [] Unwrap(opcode).value = 4 -> parse_ack(remainder)
                   [] Unwrap(opcode).value = 5 -> parse_error(remainder)
                   [] OTHER -> None

\* Packet::to_bytes
to_bytes(p) ==
    CASE p.op = "RRQ" ->
            write_string(write_string(write_u16(<<>>, 1), p.filename), p.mode)
      [] p.op = "WRQ" ->
            write_string(write_string(write_u16(<<>>, 2), p.filename), p.mode)
      [] p.op = "DATA" -> write_u16(write_u16(<<>>, 3), p.block) \o p.data
      [] p.op = "ACK" -> write_u16(write_u16(<<>>, 3), p.block)
      [] p.op = "ERROR" -> write_string(write_u16(<<>>, u16_from_Error(p.code)), p.message)

\* The packets handed to to_bytes.  Strings hold no NUL byte: "", "a",
\* "a0", "octet".
TftpPackets ==
    LET strings == {<<>>, <<97>>, <<97, 48>>, <<111, 99, 116, 101, 116>>}
        blocks == {0, 1, 255, 256, U16Max}
        payloads == {<<>>, <<0>>, <<48>>, <<0, 1, 255>>}
        errors == {Error_from_u16(c) : c \in 0..8 \cup {U16Max}}
    IN  {[op |-> o, filename |-> f, mode |-> m] :
            o \in {"RRQ", "WRQ"}, f \in strings, m \in strings}
        \cup {[op |-> "DATA", block |-> b, data |-> d] : b \in blocks, d \in payloads}
        \cup {[op |-> "ACK", block |-> b] : b \in blocks}
        \cup {[op |-> "ERROR", code |-> c, message |-> m] : c \in errors, m \in strings}

\* The buffers handed to Packet::parse
TftpBuffers ==
    UNION {[1..n -> {0, 1, 2, 3, 4, 5, 9, 97, 255}] : n \in 0..3}
    \cup {<<0, o, 97, 0, 98, 0>> : o \in {1, 2, 5}}

\* p.to_bytes() followed by Packet::parse of the bytes
TftpRoundTrip ==
    /\ \E p \in TftpPackets :
        /\ input' = Some([fn |-> "to_bytes", packet |-> p])
        /\ output' = Some([bytes |-> to_bytes(p), parsed |-> Packet_parse(to_bytes(p))])
    /\ UNCHANGED <<dhcpVars, poolVars, tftpVars, routerVars, lockVars, dbVars>>

\* Packet::parse of a received buffer
TftpParse ==
    /\ \E data \in TftpBuffers :
        /\ input' = Some([fn |-> "parse", bytes |-> data])
        /\ output' = Some([parsed |-> Packet_parse(data)])
    /\ UNCHANGED <<dhcpVars, poolVars, tftpVars, routerVars, lockVars, dbVars>>

(***************************************************************************)
(* The DHCP codec (dhcp/packet.rs), byte by byte                           *)
(*                                                                         *)
(* An Ipv4Addr is the u32 of its octets (Ipv4Addr::from, octets), a u32 is *)
(* kept as the integer with the same 32 bits, a MacAddress is its six      *)
(* bytes.                                                                  *)
(***************************************************************************)
HeaderLen == 236                      \* the fixed BOOTP header
MagicCookie == <<99, 130, 83, 99>>    \* 0x63 0x82 0x53 0x63
Zeros(n) == [i \in 1..n |-> 0]

u32_from_be_bytes(b) ==
    (IF b[1] >= 128 THEN b[1] - 256 ELSE b[1]) * 16777216
        + b[2] * 65536 + b[3] * 256 + b[4]
u32_to_be_bytes(x) ==
    <<(x \div 16777216) % 256, (x \div 65536) % 256, (x \div 256) % 256, x % 256>>

\* TryFrom<u8> for DhcpMessageType; `msg_type as u8` is DhcpMessageType[msg_type]
DhcpMessageType_try_from(value) ==
    IF \E n \in DOMAIN DhcpMessageType : DhcpMessageType[n] = value
    THEN Some(CHOOSE n \in DOMAIN DhcpMessageType : DhcpMessageType[n] = value)
    ELSE None

\* The variants of DhcpOption: SubnetMask, Router, DnsServers, DomainName,
\* LeaseTime, MessageType, ServerIdentifier, RequestedIpAddress and
\* ClientIdentifier carry one value.
DhcpOption(kind, value) == [kind |-> kind, value |-> value]
Option82(circuit_id, remote_id) ==
    [kind |-> "Option82", circuit_id |-> circuit_id, remote_id |-> remote_id]
Other(code, bytes) == [kind |-> "Other", code |-> code, value |-> bytes]

NoOptions == [c \in {} |-> Other(0, <<>>)]

DhcpPacket_new ==
    [op |-> 0, htype |-> 1, hlen |-> 6, hops |-> 0, xid |-> 0, secs |-> 0,
     flags |-> 0, ciaddr |-> Unspecified, yiaddr |-> Unspecified,
     siaddr |-> Unspecified, giaddr |-> Unspecified, chaddr |-> Zeros(6),
     sname |-> Zeros(64), file |-> Zeros(128), options |-> NoOptions]

\* option_data.chunks(4), keeping the chunks of four bytes
Chunks4(option_data) ==
    [k \in 1..(Len(option_data) \div 4) |->
        u32_from_be_bytes(SubSeq(option_data, 4 * k - 3, 4 * k))]

\* parse_option82: the loop from (1-based) position i on
RECURSIVE parse_option82(_, _, _)
parse_option82(data, i, option82) ==
    IF i > Len(data) \/ i + 1 > Len(data) THEN option82
    ELSE LET subcode == data[i]
             sublen == data[i + 1]
         IN  IF i + 1 + sublen > Len(data) THEN option82
             ELSE LET subdata == SubSeq(data, i + 2, i + 1 + sublen)
                  IN  parse_option82(data, i + 2 + sublen,
                        CASE subcode = 1 -> Option82(Some(subdata), option82.remote_id)
                          [] subcode = 2 -> Option82(option82.circuit_id, Some(subdata))
                          [] OTHER -> option82)

\* The match on option_code in parse_options
parse_option(option_code, option_data) ==
    LET option_len == Len(option_data)
        other == Other(option_code, option_data)
        addr(kind) == IF option_len = 4
                      THEN DhcpOption(kind, u32_from_be_bytes(option_data)) ELSE other
    IN  CASE option_code = 1 -> addr("SubnetMask")
          [] option_code = 3 -> DhcpOption("Router", Chunks4(option_data))
          [] option_code = 6 -> DhcpOption("DnsServers", Chunks4(option_data))
          [] option_code = 15 -> DhcpOption("DomainName", from_utf8_lossy(option_data))
          [] option_code = 51 -> addr("LeaseTime")
          [] option_code = 53 ->
                IF option_len = 1 /\ DhcpMessageType_try_from(option_data[1]) # None
                THEN DhcpOption("MessageType",
                                Unwrap(DhcpMessageType_try_from(option_data[1])))
                ELSE other
          [] option_code = 54 -> addr("ServerIdentifier")
          [] option_code = 50 -> addr("RequestedIpAddress")
          [] option_code = 61 -> DhcpOption("ClientIdentifier", option_data)
          [] option_code = 82 -> parse_option82(option_data, 1, Option82(None, None))
          [] OTHER -> other

\* parse_options: the loop from (1-based) position i on; None for Err
RECURSIVE parse_options(_, _, _)
parse_options(data, i, options) ==
    IF i > Len(data) THEN Some(options)
    ELSE IF data[i] = 255 THEN Some(options)
    ELSE IF data[i] = 0 THEN parse_options(data, i + 1, options)
    ELSE IF i + 1 > Len(data) THEN None
    ELSE LET option_code == data[i]
             option_len == data[i + 1]
         IN  IF i + 1 + option_len > Len(data) THEN None
             ELSE parse_options(data, i + 2 + option_len,
                    Insert(options, option_code,
                           parse_option(option_code,
                                        SubSeq(data, i + 2, i + 1 + option_len))))

ParseOk(p) == [outcome |-> "Ok", packet |-> p]
ParseErr == [outcome |-> "Err"]
ParsePanicked == [outcome |-> "panicked"]

\* DhcpPacket::parse.  `data[236..240]` is evaluated whenever the buffer is
\* longer than the header; the slice panics when the buffer ends before 240.
DhcpPacket_parse(data) ==
    IF Len(data) < HeaderLen THEN ParseErr
    ELSE LET header == [DhcpPacket_new EXCEPT
                            !.op = data[1], !.htype = data[2],
                            !.hlen = data[3], !.hops = data[4],
                            !.xid = u32_from_be_bytes(SubSeq(data, 5, 8)),
                            !.secs = data[9] * 256 + data[10],
                            !.flags = data[11] * 256 + data[12],
                            !.ciaddr = u32_from_be_bytes(SubSeq(data, 13, 16)),
                            !.yiaddr = u32_from_be_bytes(SubSeq(data, 17, 20)),
                            !.siaddr = u32_from_be_bytes(SubSeq(data, 21, 24)),
                            !.giaddr = u32_from_be_bytes(SubSeq(data, 25, 28)),
                            !.chaddr = SubSeq(data, 29, 34),
                            !.sname = SubSeq(data, 45, 108),
                            !.file = SubSeq(data, 109, 236)]
         IN  IF Len(data) > HeaderLen
             THEN IF Len(data) < HeaderLen + 4 THEN ParsePanicked
                  ELSE IF SubSeq(data, HeaderLen + 1, HeaderLen + 4) = MagicCookie
                  THEN LET parsed == parse_options(SubSeq(data, HeaderLen + 5, Len(data)),
                                                   1, NoOptions)
                       IN  IF parsed = None THEN ParseErr
                           ELSE ParseOk([header EXCEPT !.options = Unwrap(parsed)])
                  ELSE ParseOk(header)
             ELSE ParseOk(header)

RECURSIVE Concat(_)
Concat(seqs) == IF seqs = <<>> THEN <<>> ELSE Head(seqs) \o Concat(Tail(seqs))

\* serialize_option: the bytes pushed for one entry of the map; a length is
\* written `as u8`
serialize_option(code, option) ==
    <<code>> \o
    CASE option.kind \in {"SubnetMask", "ServerIdentifier", "RequestedIpAddress",
                          "LeaseTime"} ->
            <<4>> \o u32_to_be_bytes(option.value)
      [] option.kind \in {"Router", "DnsServers"} ->
            <<(Len(option.value) * 4) % 256>>
                \o Concat([k \in 1..Len(option.value) |-> u32_to_be_bytes(option.value[k])])
      [] option.kind \in {"DomainName", "ClientIdentifier", "Other"} ->
            <<Len(option.value) % 256>> \o option.value
      [] option.kind = "MessageType" -> <<1, DhcpMessageType[option.value]>>
      [] option.kind = "Option82" ->
            LET opt82_data ==
                    (IF option.circuit_id # None
                     THEN <<1, Len(Unwrap(option.circuit_id)) % 256>>
                              \o Unwrap(option.circuit_id)
                     ELSE <<>>)
                    \o (IF option.remote_id # None
                        THEN <<2, Len(Unwrap(option.remote_id)) % 256>>
                                 \o Unwrap(option.remote_id)
                        ELSE <<>>)
            IN  <<Len(opt82_data) % 256>> \o opt82_data

\* The orders in which a HashMap with these keys can be iterated
Orders(keys) ==
    {order \in [1..Cardinality(keys) -> keys] :
        \A i, j \in 1..Cardinality(keys) : i # j => order[i] # order[j]}

\* DhcpPacket::serialize when the map is iterated in the given order
serialize_in(p, order) ==
    <<p.op, p.htype, p.hlen, p.hops>>
        \o u32_to_be_bytes(p.xid)
        \o <<p.secs \div 256, p.secs % 256, p.flags \div 256, p.flags % 256>>
        \o u32_to_be_bytes(p.ciaddr) \o u32_to_be_bytes(p.yiaddr)
        \o u32_to_be_bytes(p.siaddr) \o u32_to_be_bytes(p.giaddr)
        \o p.chaddr \o Zeros(10)
        \o p.sname \o p.file
        \o MagicCookie
        \o Concat([k \in 1..Len(order) |-> serialize_option(order[k], p.options[order[k]])])
        \o <<255>>

\* DhcpPacket::serialize: one result for each iteration order of the map
serialize(p) == {serialize_in(p, order) : order \in Orders(DOMAIN p.options)}

\* Headers handed to the codec
DhcpHeaders ==
    {DhcpPacket_new,
     [DhcpPacket_new EXCEPT
        !.op = 1, !.xid = 305419896, !.secs = 258, !.flags = 32768,
        !.ciaddr = Ip(10, 0, 0, 2), !.chaddr = <<170, 187, 204, 221, 238, 1>>,
        !.sname = [i \in 1..64 |-> IF i = 1 THEN 98 ELSE 0],
        !.file = [i \in 1..128 |-> IF i = 128 THEN 1 ELSE 0]],
     [DhcpPacket_new EXCEPT
        !.op = 2, !.hops = 255, !.xid = -1, !.secs = U16Max,
        !.yiaddr = Ip(10, 0, 0, 3), !.siaddr = -1, !.giaddr = Ip(10, 0, 0, 1),
        !.chaddr = <<170, 187, 204, 221, 238, 2>>]}

\* The packets handed to serialize: the headers with option maps of at most
\* two entries, each entry as parse_options produces it.  LongDomainName is
\* what parse_options makes of option 15 carrying 86 bytes 0xFF, that is
\* from_utf8_lossy of them: 86 times U+FFFD, a String of 258 bytes.
DhcpPackets ==
    LET LongDomainName == [i \in 1..258 |-> Replacement[((i - 1) % 3) + 1]]
        entries ==
            {<<1, DhcpOption("SubnetMask", -256)>>, <<1, Other(1, <<255>>)>>,
             <<3, DhcpOption("Router", <<Ip(10, 0, 0, 1)>>)>>,
             <<3, DhcpOption("Router", <<>>)>>,
             <<6, DhcpOption("DnsServers", <<Ip(10, 0, 0, 1), Ip(10, 0, 0, 2)>>)>>,
             <<15, DhcpOption("DomainName", <<97>>)>>,
             <<15, DhcpOption("DomainName", LongDomainName)>>,
             <<51, DhcpOption("LeaseTime", 3600)>>, <<51, DhcpOption("LeaseTime", -1)>>,
             <<53, DhcpOption("MessageType", "DISCOVER")>>,
             <<53, DhcpOption("MessageType", "ACK")>>,
             <<53, Other(53, <<9>>)>>,
             <<54, DhcpOption("ServerIdentifier", Ip(10, 0, 0, 1))>>,
             <<50, DhcpOption("RequestedIpAddress", Ip(10, 0, 0, 2))>>,
             <<61, DhcpOption("ClientIdentifier", <<1, 2>>)>>,
             <<82, Option82(Some(<<7>>), None)>>,
             <<82, Option82(Some(<<>>), Some(<<8, 9>>))>>,
             <<43, Other(43, <<1, 2, 3>>)>>, <<60, Other(60, <<>>)>>}
        maps ==
            {NoOptions}
            \cup {Insert(NoOptions, e[1], e[2]) : e \in entries}
            \cup {Insert(Insert(NoOptions, e[1], e[2]), f[1], f[2]) :
                    e \in {x \in entries : x[1] \in {53, 1}},
                    f \in {x \in entries : x[1] \notin {53, 1}}}
    IN  {[h EXCEPT !.options = o] : h \in DhcpHeaders, o \in maps}

\* The buffers handed to DhcpPacket::parse.  The first kind is a serialised
\* header, the cookie, options as (code, declared length, data) and possibly
\* the end option; tlvs and end say how the buffer was made.  The second kind
\* is a buffer cut at every length around the header and the cookie, with a
\* good and with a broken cookie.
DhcpBuffers ==
    LET Tlv(code, len, data) == [code |-> code, len |-> len, data |-> data]
        TlvBytes(tlvs) ==
            Concat([k \in 1..Len(tlvs) |-> <<tlvs[k].code, tlvs[k].len>> \o tlvs[k].data])
        HeaderBytes(h) == SubSeq(serialize_in(h, <<>>), 1, HeaderLen)
        wellFormed ==
            {Tlv(53, 1, <<1>>), Tlv(53, 1, <<9>>), Tlv(1, 4, <<255, 255, 255, 0>>),
             Tlv(50, 4, <<10, 0, 0, 2>>), Tlv(54, 4, <<10, 0, 0, 1>>),
             Tlv(3, 5, <<10, 0, 0, 1, 7>>), Tlv(15, 2, <<97, 255>>),
             Tlv(82, 5, <<1, 1, 7, 2, 9>>), Tlv(43, 0, <<>>)}
        \* options 53, 1, 50 and 54 with a length other than the usual one
        oddLength ==
            {Tlv(53, 2, <<1, 1>>), Tlv(53, 0, <<>>), Tlv(1, 3, <<255, 255, 255>>),
             Tlv(50, 5, <<10, 0, 0, 2, 0>>), Tlv(54, 1, <<10>>)}
        \* a last option whose declared length is more than the data given
        overrun ==
            {Tlv(53, 1, <<>>), Tlv(43, 200, <<1, 2>>), Tlv(1, 4, <<255, 255, 255>>)}
    IN  {[bytes |-> HeaderBytes(h) \o MagicCookie \o TlvBytes(tlvs) \o end,
          tlvs |-> tlvs, end |-> end]
            : h \in DhcpHeaders,
              tlvs \in {<<t>> : t \in wellFormed \cup oddLength \cup overrun}
                       \cup {<<t, u>> : t \in wellFormed, u \in oddLength \cup overrun},
              end \in {<<>>, <<255>>}}
        \cup
        {[bytes |-> SubSeq(HeaderBytes(h) \o cookie \o <<53, 1, 1, 255>>, 1, n),
          tlvs |-> <<>>, end |-> <<>>]
            : h \in DhcpHeaders,
              cookie \in {MagicCookie, <<99, 130, 83, 0>>, <<0, 0, 0, 0>>},
              n \in {0, 1, HeaderLen - 1} \cup HeaderLen..(HeaderLen + 8)}

\* p.serialize() in each iteration order, followed by DhcpPacket::parse
DhcpRoundTrip ==
    /\ \E p \in DhcpPackets :
        /\ input' = Some([fn |-> "serialize", packet |-> p])
        /\ output' = {[bytes |-> b, parsed |-> DhcpPacket_parse(b)] : b \in serialize(p)}
    /\ UNCHANGED <<dhcpVars, poolVars, tftpVars, routerVars, lockVars, dbVars>>

\* DhcpPacket::parse of a received buffer
DhcpParse ==
    /\ \E data \in DhcpBuffers :
        /\ input' = Some([fn |-> "parse", bytes |-> data.bytes,
                           tlvs |-> data.tlvs, end |-> data.end])
        /\ output' = Some([parsed |-> DhcpPacket_parse(data.bytes)])
    /\ UNCHANGED <<dhcpVars, poolVars, tftpVars, routerVars, lockVars, dbVars>>

(***************************************************************************)
(* The two mutexes: the catalog connection (db) and the address pool       *)
(* (ip_pool), and the tasks that lock them                                 *)
(*                                                                         *)
(* One task runs DhcpServer::start: initialize_pools, then the loop of     *)
(* serve_ipv4, which awaits each handler before it receives again.  The    *)
(* HTTP server runs its handlers concurrently.  tokio's Mutex is not       *)
(* reentrant and a guard is released where it is dropped.                  *)
(***************************************************************************)
Tasks == {"dhcp", "http1", "http2"}

Lock(l) == [op |-> "lock", lock |-> l]
Unlock(l) == [op |-> "unlock", lock |-> l]
\* `let guard = m.lock().await;` with the guard dropped at the end of the
\* function or block that took it.  Section("db") is a call of
\* find_interface_by_mac, create_interface, update_interface_ip,
\* update_interface_rack_info, get_subnet_for_interface, create_lease,
\* release_lease, register_device or update_device_last_seen.
Section(l) == <<Lock(l), Unlock(l)>>

\* The lock and unlock steps of each function, one sequence per path.
\* find_interface_by_mac alone, then update_interface_rack_info, or then
\* create_interface
find_or_create_interface_locks ==
    {Section("db"), Section("db") \o Section("db")}

initialize_pools_locks == Section("db") \o Section("pool")

\* find_or_create_interface, then get_subnet_for_interface (the interface
\* has an address), allocate_ipv4 failing, or allocate_ipv4 and
\* get_subnet_for_interface
handle_discover_locks ==
    {f \o rest : f \in find_or_create_interface_locks,
                 rest \in {Section("db"),
                           Section("pool"),
                           Section("pool") \o Section("db")}}

\* handle_request without `drop(pool)`: the guard lives to the end of the
\* function.
handle_request_keeps_pool ==
    {f \o rest : f \in find_or_create_interface_locks,
                 rest \in {Section("pool"),
                           <<Lock("pool")>> \o Section("db") \o Section("db")
                               \o Section("db") \o <<Unlock("pool")>>}}

\* find_or_create_interface, the pool check, and for an ACK create_lease,
\* update_interface_ip and get_subnet_for_interface
handle_request_locks ==
    {f \o rest : f \in find_or_create_interface_locks,
                 rest \in {Section("pool"),
                           Section("pool") \o Section("db") \o Section("db")
                               \o Section("db")}}

\* find_interface_by_mac, and for an interface with an address
\* release_lease, update_interface_ip and release_ip
handle_release_locks ==
    {Section("db"),
     Section("db") \o Section("db") \o Section("db") \o Section("pool")}

handle_decline_locks == {Section("pool")}

\* ipxe_handler: Director::register_device, then Director::next_boot_target
ipxe_handler_locks == {Section("db") \o Section("db")}

Programs(t) ==
    IF t = "dhcp"
    THEN handle_discover_locks \cup handle_request_locks
            \cup handle_release_locks \cup handle_decline_locks
    ELSE ipxe_handler_locks

Held(l) == \E t \in Tasks : l \in holding[t]
Waiting(t, l) == running[t] # <<>> /\ Head(running[t]) = Lock(l)

\* A task that is between handlers takes up the next one.
LockBegin ==
    /\ \E t \in Tasks : \E program \in Programs(t) :
        /\ running[t] = <<>>
        /\ running' = [running EXCEPT ![t] = program]
    /\ UNCHANGED <<holding, dhcpVars, poolVars, tftpVars, routerVars, codecVars, dbVars>>

\* m.lock().await completes when no task holds the mutex.
LockAcquire ==
    /\ \E t \in Tasks : \E l \in {"db", "pool"} :
        /\ Waiting(t, l)
        /\ ~Held(l)
        /\ holding' = [holding EXCEPT ![t] = @ \cup {l}]
        /\ running' = [running EXCEPT ![t] = Tail(@)]
    /\ UNCHANGED <<dhcpVars, poolVars, tftpVars, routerVars, codecVars, dbVars>>

\* The guard is dropped.
LockRelease ==
    /\ \E t \in Tasks :
        /\ running[t] # <<>>
        /\ Head(running[t]).op = "unlock"
        /\ holding' = [holding EXCEPT ![t] = @ \ {Head(running[t]).lock}]
        /\ running' = [running EXCEPT ![t] = Tail(@)]
    /\ UNCHANGED <<dhcpVars, poolVars, tftpVars, routerVars, codecVars, dbVars>>

(***************************************************************************)
(* The catalog file: migrations and devices (database/mod.rs,              *)
(* director/store.rs, director/mod.rs, http/cnc.rs)                        *)
(***************************************************************************)
LATEST_VERSION == 2

MaxApplied == 4       \* migration batches run over all openings of the file

Uuids == {"uuid-1", "uuid-2", "uuid-3"}

\* database::open up to the first statement that writes: the table migrations
\* exists and its version is read (no row: query_one fails and open returns
\* Err), or the table is created.  The position after a version is known is
\* the loop test of perform_migrations.
database_open ==
    /\ db_pc = "closed"
    /\ IF migrations.exists
       THEN IF migrations.version # None
            THEN /\ db_version' = Unwrap(migrations.version)
                 /\ db_pc' = IF Unwrap(migrations.version) < LATEST_VERSION
                            THEN "execute_batch" ELSE "open"
                 /\ UNCHANGED migrations
            ELSE UNCHANGED <<migrations, db_pc, db_version>>
       ELSE /\ migrations' = [exists |-> TRUE, version |-> None]
            /\ db_pc' = "insert"
            /\ UNCHANGED db_version
    /\ UNCHANGED <<applied, devices, db_call>>
    /\ UNCHANGED <<dhcpVars, poolVars, tftpVars, routerVars, codecVars, lockVars>>

\* get_or_init_current_migration, the second statement of its batch.
get_or_init_current_migration ==
    /\ db_pc = "insert"
    /\ migrations' = [migrations EXCEPT !.version = Some(0)]
    /\ db_version' = 0
    /\ db_pc' = IF 0 < LATEST_VERSION THEN "execute_batch" ELSE "open"
    /\ UNCHANGED <<applied, devices, db_call>>
    /\ UNCHANGED <<dhcpVars, poolVars, tftpVars, routerVars, codecVars, lockVars>>

\* `version += 1` and perform_migration up to execute_batch.  The SQL of a
\* migration that has run before either runs again or fails, and then open
\* returns Err.
perform_migration_batch ==
    /\ db_pc = "execute_batch"
    /\ Len(applied) < MaxApplied
    /\ LET version == db_version + 1
       IN  /\ db_version' = version
           /\ \/ /\ applied' = Append(applied, version)
                 /\ db_pc' = "update"
              \/ /\ \E i \in 1..Len(applied) : applied[i] = version
                 /\ db_pc' = "closed"
                 /\ UNCHANGED applied
    /\ UNCHANGED <<migrations, devices, db_call>>
    /\ UNCHANGED <<dhcpVars, poolVars, tftpVars, routerVars, codecVars, lockVars>>

\* perform_migration, the UPDATE of the stored version.
perform_migration_update ==
    /\ db_pc = "update"
    /\ migrations' = [migrations EXCEPT !.version = Some(db_version)]
    /\ db_pc' = IF db_version < LATEST_VERSION THEN "execute_batch" ELSE "open"
    /\ UNCHANGED <<applied, devices, db_version, db_call>>
    /\ UNCHANGED <<dhcpVars, poolVars, tftpVars, routerVars, codecVars, lockVars>>

\* The process stops; the file keeps what was written.
Stop ==
    /\ db_pc # "closed"
    /\ db_pc' = "closed"
    /\ UNCHANGED <<migrations, applied, devices, db_version, db_call>>
    /\ UNCHANGED <<dhcpVars, poolVars, tftpVars, routerVars, codecVars, lockVars>>

\* The table devices identifies a device by its uuid: an INSERT of a uuid it
\* holds conflicts.
uuid_conflict(table, uuid) == \E i \in 1..Len(table) : table[i].uuid = uuid

is_device_known(table, uuid) == \E i \in 1..Len(table) : table[i].uuid = uuid

update_device_last_seen(table, uuid) ==
    [i \in 1..Len(table) |->
        IF table[i].uuid = uuid
        THEN [table[i] EXCEPT !.last_seen_at = "CURRENT_TIMESTAMP"]
        ELSE table[i]]

\* database::register_device: INSERT OR IGNORE, then the UPDATE.  A row's
\* last_seen_at is the column default after the INSERT and CURRENT_TIMESTAMP
\* after the UPDATE.  The result is the table and whether Ok was returned.
register_device(table, uuid) ==
    LET inserted == IF uuid_conflict(table, uuid) THEN table
                    ELSE Append(table, [uuid |-> uuid, last_seen_at |-> "default"])
    IN  [devices |-> update_device_last_seen(inserted, uuid), ok |-> TRUE]

\* DirectorStore::register_device (Director::register_device passes it on):
\* a plain INSERT, which a conflict fails.
DirectorStore_register_device(table, uuid) ==
    IF uuid_conflict(table, uuid) THEN [devices |-> table, ok |-> FALSE]
    ELSE [devices |-> Append(table, [uuid |-> uuid, last_seen_at |-> "default"]),
          ok |-> TRUE]

\* database::register_device on the open catalog.
RegisterDevice ==
    /\ db_pc = "open"
    /\ \E uuid \in Uuids :
        LET r == register_device(devices, uuid)
        IN  /\ devices' = r.devices
            /\ db_call' = Some([op |-> "register_device", uuid |-> uuid,
                                known |-> is_device_known(devices, uuid), ok |-> r.ok])
    /\ UNCHANGED <<migrations, applied, db_pc, db_version>>
    /\ UNCHANGED <<dhcpVars, poolVars, tftpVars, routerVars, codecVars, lockVars>>

\* ipxe_handler with a uuid: Director::register_device, whose Err is logged
\* and passed over, then Director::next_boot_target.
ipxe_handler ==
    /\ db_pc = "open"
    /\ \E uuid \in Uuids :
        LET r == DirectorStore_register_device(devices, uuid)
        IN  /\ devices' = update_device_last_seen(r.devices, uuid)
            /\ db_call' = Some([op |-> "Director::register_device", uuid |-> uuid,
                                known |-> is_device_known(devices, uuid), ok |-> r.ok])
    /\ UNCHANGED <<migrations, applied, db_pc, db_version>>
    /\ UNCHANGED <<dhcpVars, poolVars, tftpVars, routerVars, codecVars, lockVars>>

DbInit ==
    /\ migrations = [exists |-> FALSE, version |-> None]
    /\ applied = <<>>
    /\ devices = <<>>
    /\ db_pc = "closed"
    /\ db_version = 0
    /\ db_call = None

vars == <<dhcpVars, poolVars, tftpVars, routerVars, codecVars, lockVars, dbVars>>

CodecInit ==
    /\ input = None
    /\ output = None

LockInit ==
    /\ holding = [t \in Tasks |-> {}]
    /\ running = [t \in Tasks |-> IF t = "dhcp" THEN initialize_pools_locks ELSE <<>>]

Init == DhcpInit /\ PoolApiInit /\ TftpInit /\ RouterInit /\ CodecInit /\ LockInit /\ DbInit

TftpNext ==
    \/ TftpAccept
    \/ TftpRecv
    \/ TftpTimeout

SpecTftp == Init /\ [][TftpNext]_vars

PoolNext ==
    \/ PoolAddSubnet
    \/ PoolAllocate
    \/ PoolRelease
    \/ PoolMarkUsed

SpecPool == Init /\ [][PoolNext]_vars

TftpCodecNext ==
    \/ TftpRoundTrip
    \/ TftpParse

SpecTftpCodec == Init /\ [][TftpCodecNext]_vars

DhcpCodecNext ==
    \/ DhcpRoundTrip
    \/ DhcpParse

SpecDhcpCodec == Init /\ [][DhcpCodecNext]_vars

LockNext ==
    \/ LockBegin
    \/ LockAcquire
    \/ LockRelease

SpecLocks == Init /\ [][LockNext]_vars

DbNext ==
    \/ database_open
    \/ get_or_init_current_migration
    \/ perform_migration_batch
    \/ perform_migration_update
    \/ Stop
    \/ RegisterDevice
    \/ ipxe_handler

SpecDb == Init /\ [][DbNext]_vars

Next ==
    \/ initialize_pools
    \/ RecvDiscover
    \/ RecvRequest
    \/ RecvRelease
    \/ RecvDecline
    \/ RecvIgnored
    \/ Restart

Spec == Init /\ [][Next]_vars

RouterNext == RouterRecv

SpecRouter == Init /\ [][RouterNext]_vars

(***************************************************************************)
(* Claims about the DHCP server                                            *)
(***************************************************************************)
ActiveLeases(leases, ip) ==
    {i \in 1..Len(leases) : leases[i].is_active /\ leases[i].ip_address = ip}

InterfacesOf(ifs, mac) == {i \in 1..Len(ifs) : ifs[i].mac_address = mac}

LeasedIps == {dhcp_leases[i].ip_address : i \in 1..Len(dhcp_leases)}

\* C1: in every reachable state the catalog holds at most one lease with
\* is_active = true per ip_address.
C1_OneActiveLeasePerIp ==
    \A ip \in LeasedIps : Cardinality(ActiveLeases(dhcp_leases, ip)) <= 1

\* C2: when a MAC without interface record was answered its DISCOVER with an
\* OFFER of x and then sends REQUEST with option 50 = x, the reply is an ACK
\* with yiaddr = x, and afterwards the catalog has exactly one interface for
\* the MAC and exactly one active lease for x.
C2_DiscoverRequestAcked ==
    [][ \A m \in Macs : \A x \in ClientIps :
          ( /\ m \in fresh
            /\ offered[m] = {x}
            /\ packet' = Some(Datagram("REQUEST", m, Unspecified, Some(x))) )
          => /\ response' # None
             /\ Unwrap(response').type = "ACK"
             /\ Unwrap(response').yiaddr = x
             /\ Cardinality(InterfacesOf(interfaces', m)) = 1
             /\ Cardinality(ActiveLeases(dhcp_leases', x)) = 1 ]_vars

\* C3: an address offered to one client that has not yet sent REQUEST,
\* RELEASE or DECLINE is not offered to a client with another MAC.
C3_NoDoubleOffer ==
    \A a \in Macs : \A b \in Macs \ {a} : offered[a] \cap offered[b] = {}

\* C8: right after startup (initialize_pools done, no datagram handled yet)
\* every address with an active lease in the catalog is not available in
\* the pool and is not a possible result of allocate_ipv4.
C8_ActiveLeasesSeeded ==
    (pc = "serving" /\ packet = None) =>
        \A i \in 1..Len(dhcp_leases) : dhcp_leases[i].is_active =>
            /\ ~is_available(ip_pool, dhcp_leases[i].ip_address)
            /\ \A a \in allocate_ipv4(ip_pool, None) :
                   a.ip # Some(dhcp_leases[i].ip_address)

\* C9: an OFFER never carries an address that was declined earlier in the
\* same server lifetime, and a DECLINE is not answered.
C9_DeclinedNeverOffered ==
    /\ (response # None /\ Unwrap(response).type = "OFFER")
           => Unwrap(response).yiaddr \notin declined
    /\ (packet # None /\ Unwrap(packet).type = "DECLINE") => response = None

\* C10: RELEASE from a MAC whose interface holds x sets the (interface, x)
\* leases inactive, clears the interface's IPv4, makes x available in the
\* pool and sends nothing; handling the same RELEASE again, or a RELEASE of
\* an unknown MAC or of an interface without IPv4, changes nothing.
C10_ReleaseIdempotent ==
    pc = "serving" =>
    \A p \in Releases : \A r \in handle_release(Catalog, p) :
        LET found == find_interface_by_mac(interfaces, p.chaddr)
            after == [interfaces |-> r.interfaces, dhcp_leases |-> r.dhcp_leases,
                      ip_pool |-> r.ip_pool]
        IN  /\ r.response = None
            /\ handle_release(after, p) = {r}
            /\ IF found # None /\ Unwrap(found).ipv4_address # None
               THEN LET id == Unwrap(found).id
                        x == Unwrap(Unwrap(found).ipv4_address)
                    IN  /\ \A i \in 1..Len(r.dhcp_leases) :
                              (r.dhcp_leases[i].interface_id = id
                               /\ r.dhcp_leases[i].ip_address = x)
                                  => ~r.dhcp_leases[i].is_active
                        /\ Unwrap(find_interface_by_mac(r.interfaces, p.chaddr)).ipv4_address = None
                        /\ is_available(r.ip_pool, x)
                        /\ Len(r.dhcp_leases) = Len(dhcp_leases)
                        /\ \A i \in 1..Len(r.dhcp_leases) :
                              (r.dhcp_leases[i].interface_id # id
                               \/ r.dhcp_leases[i].ip_address # x)
                                  => r.dhcp_leases[i] = dhcp_leases[i]
               ELSE after = Catalog

\* C10 witness: a RELEASE was handled for an interface that held an address:
\* the interface has no IPv4 now and its lease is inactive.
C10_Witness ==
    /\ packet # None /\ Unwrap(packet).type = "RELEASE"
    /\ \E i \in 1..Len(interfaces) :
        /\ interfaces[i].mac_address = Unwrap(packet).chaddr
        /\ interfaces[i].ipv4_address = None
        /\ \E j \in 1..Len(dhcp_leases) :
            /\ dhcp_leases[j].interface_id = interfaces[i].id
            /\ ~dhcp_leases[j].is_active

\* C11: a REQUEST for x is answered ACK exactly when the pool reports x
\* available or x is the requesting interface's ipv4_address; otherwise it is
\* answered NAK (type 6, yiaddr 0.0.0.0, none of the options 1, 3, 6, 51),
\* no lease is created and no interface's address changes.
C11_AckIffAcceptable ==
    pc = "serving" =>
    \A p \in Requests : requested_ip(p) # None =>
        \A r \in handle_request(Catalog, p) :
            LET x == Unwrap(requested_ip(p))
                found == find_interface_by_mac(interfaces, p.chaddr)
                own == found # None /\ Unwrap(found).ipv4_address = Some(x)
                acceptable == is_available(ip_pool, x) \/ own
                reply == Unwrap(r.response)
            IN  /\ r.response # None
                /\ reply.type \in {"ACK", "NAK"}
                /\ reply.type = "ACK" <=> acceptable
                /\ reply.type = "ACK" => reply.yiaddr = x
                /\ reply.type = "NAK" =>
                      /\ DhcpMessageType[reply.type] = 6
                      /\ reply.yiaddr = Unspecified
                      /\ reply.options \cap {1, 3, 6, 51} = {}
                      /\ r.dhcp_leases = dhcp_leases
                      /\ \A i \in 1..Len(r.interfaces) :
                            IF i <= Len(interfaces)
                            THEN r.interfaces[i] = interfaces[i]
                            ELSE r.interfaces[i].ipv4_address = None

\* C11 witness: a REQUEST for an address the pool reports as not available
\* was ACKed because the address is the requesting interface's own.
C11_Witness ==
    /\ packet # None /\ Unwrap(packet).type = "REQUEST"
    /\ response # None /\ Unwrap(response).type = "ACK"
    /\ ~is_available(ip_pool, Unwrap(response).yiaddr)
    /\ Len(dhcp_leases) = 2
    /\ dhcp_leases[1] = dhcp_leases[2]

\* C12: in every reachable state of the running server each address with an
\* active lease is not available in the pool and is not a possible result of
\* allocate_ipv4.
C12_LeasedNotAvailable ==
    pc = "serving" =>
        \A i \in 1..Len(dhcp_leases) : dhcp_leases[i].is_active =>
            /\ ~is_available(ip_pool, dhcp_leases[i].ip_address)
            /\ \A sid \in {None, Some(1)} : \A a \in allocate_ipv4(ip_pool, sid) :
                   a.ip # Some(dhcp_leases[i].ip_address)

\* C13: every interface has at most one active lease, and the address of
\* that lease is the interface's ipv4_address.
C13_OneActiveLeasePerInterface ==
    \A i \in 1..Len(interfaces) :
        LET active == {j \in 1..Len(dhcp_leases) :
                          /\ dhcp_leases[j].is_active
                          /\ dhcp_leases[j].interface_id = interfaces[i].id}
        IN  /\ Cardinality(active) <= 1
            /\ \A j \in active :
                  interfaces[i].ipv4_address = Some(dhcp_leases[j].ip_address)

\* C14: a DISCOVER is answered with the interface's existing ipv4_address
\* only when that address is available in the pool; otherwise the offered
\* address is one allocate_ipv4 returns for the interface's subnet_id.
C14_OfferExistingOnlyIfFree ==
    pc = "serving" =>
    \A p \in Discovers : \A r \in handle_discover(Catalog, p) :
        LET found == find_interface_by_mac(interfaces, p.chaddr)
            existing == IF found = None THEN None ELSE Unwrap(found).ipv4_address
            subnet_id == IF found = None THEN None ELSE Unwrap(found).subnet_id
        IN  r.response # None =>
              IF existing # None /\ is_available(ip_pool, Unwrap(existing))
              THEN Unwrap(r.response).yiaddr = Unwrap(existing)
                   /\ r.ip_pool = ip_pool
              ELSE \E a \in allocate_ipv4(ip_pool, subnet_id) :
                      /\ a.ip = Some(Unwrap(r.response).yiaddr)
                      /\ r.ip_pool = a.pool

(***************************************************************************)
(* Claims about the IP pool                                                *)
(***************************************************************************)
\* C4: allocate_ipv4 never returns an address that is in the allocated set
\* of the bucket it is taken from at the moment of the call, nor one the
\* same bucket returned since the last release_ip.
C4_AllocateReturnsFree ==
    \A sid \in SubnetIds : \A a \in allocate_ipv4(ip_pool, sid) :
        a.ip # None =>
            \E i \in 1..Len(ip_pool) :
                /\ TakenFrom(ip_pool, a) = {i}
                /\ Unwrap(a.ip) \notin ip_pool[i].allocated
                /\ Unwrap(a.ip) \notin issued[i]
                /\ a.pool[i].allocated = ip_pool[i].allocated \cup a.ip

\* C4 witness: after an allocation from a bucket and with no release since,
\* allocate_ipv4 has returned a second address from the same bucket.
C4_Witness ==
    /\ call # None /\ Unwrap(call).op = "allocate_ipv4" /\ Unwrap(call).result # None
    /\ \E i \in 1..Len(issued) :
        /\ Unwrap(Unwrap(call).result) \in issued[i]
        /\ Cardinality(issued[i]) = 2

\* The usable range [network + 1, broadcast - 1] of a bucket.
Usable(p) == (Network(p.network) + 1) .. (Broadcast(p.network) - 1)

\* C15: for a fixed subnet (one bucket) allocate returns none exactly when
\* every address of the usable range [network + 1, broadcast - 1] is
\* allocated, and returns an address whenever one of them is free.
C15_NoneIffExhausted ==
    \A i \in 1..Len(ip_pool) : \A r \in Ipv4Pool_allocate(ip_pool[i]) :
        /\ ~r.panicked
        /\ r.ip = None <=> Usable(ip_pool[i]) \subseteq ip_pool[i].allocated

\* C16: every address allocate_ipv4 returns lies inside the prefix of the
\* bucket it is taken from and is neither its network nor its broadcast
\* address.
C16_InsidePrefix ==
    \A sid \in SubnetIds : \A a \in allocate_ipv4(ip_pool, sid) :
        a.ip # None =>
            \A i \in TakenFrom(ip_pool, a) :
                /\ Contains(ip_pool[i].network, Unwrap(a.ip))
                /\ Unwrap(a.ip) # Network(ip_pool[i].network)
                /\ Unwrap(a.ip) # Broadcast(ip_pool[i].network)

\* C17: no address is in the allocated set of more than one bucket.
C17_AllocatedInOneBucket ==
    \A i \in 1..Len(ip_pool) : \A j \in 1..Len(ip_pool) :
        i # j => ip_pool[i].allocated \cap ip_pool[j].allocated = {}

\* C18: against a fixed subnet (a pool of one bucket) allocate adds exactly
\* the address it returns and release_ip removes exactly the address it is
\* given: the returned address was available before, is not available from
\* then on, is available again right after release_ip, and release_ip of an
\* address that is not allocated changes nothing.
C18_AllocatedIsIssuedMinusReleased ==
    \A i \in 1..Len(ip_pool) :
        LET pool == <<ip_pool[i]>>
        IN  /\ \A a \in allocate_ipv4(pool, None) : a.ip # None =>
                  LET x == Unwrap(a.ip)
                      released == release_ip(a.pool, x)
                  IN  /\ x \notin pool[1].allocated
                      /\ a.pool[1].allocated = pool[1].allocated \cup {x}
                      /\ ~is_available(a.pool, x)
                      /\ released[1].allocated = pool[1].allocated
                      /\ is_available(released, x)
            /\ \A ip \in ProbeIps :
                  /\ release_ip(pool, ip)[1].allocated = pool[1].allocated \ {ip}
                  /\ ip \notin pool[1].allocated => release_ip(pool, ip) = pool

(***************************************************************************)
(* Claims about the TFTP transfer engine                                   *)
(***************************************************************************)
\* C5: in a session in state Reading the block number never decreases; an
\* ACK of the current block that continues the transfer advances it by
\* exactly 1, reads the reader exactly once and is the only event answered
\* with DATA of the next block; every other packet and a timeout leave the
\* block number and the reader alone and read nothing.
C5_LockStep ==
    conn = "open" =>
        /\ \A p \in ClientPackets(transfer.block) : \A h \in handle(transfer, p) :
            (~h.panicked /\ h.transfer.state = "Reading") =>
                /\ h.transfer.block >= transfer.block
                /\ IF p = Ack(transfer.block)
                   THEN /\ h.transfer.block = transfer.block + 1
                        /\ h.reads = 1
                        /\ h.reply = Some(Data(transfer.block + 1, h.transfer.data))
                   ELSE /\ h.transfer = transfer
                        /\ h.reads = 0
                        /\ h.reply # None =>
                              ~(Unwrap(h.reply).op = "DATA"
                                /\ Unwrap(h.reply).block = transfer.block + 1)
        /\ LET h == handle_timeout(transfer)
           IN  h.transfer = transfer /\ h.reads = 0

\* C6: every DATA payload is exactly the next min(512, remaining) bytes of
\* the file (512, 512, ..., L mod 512), and the ACK of a block that carries
\* fewer than 512 file bytes ends the transfer with no further packet.
C6_BlockSizes ==
    conn = "open" =>
        /\ transfer.data.len = transfer.data.n
        /\ transfer.data.n < BlockSize =>
              \A h \in handle(transfer, Ack(transfer.block)) :
                  h.panicked \/ (h.flow = "Closed" /\ h.reply = None
                                 /\ h.transfer.state = "Complete")

\* C7: a timeout in state Reading re-sends the current DATA, and after the
\* bounded number of consecutive timeouts the session is Complete and closed
\* without a packet.
C7_TimeoutsBounded ==
    /\ (conn = "open" /\ recv = Some(Timeout)) =>
          sent = Some(Data(transfer.block, transfer.data))
    /\ timeouts >= MaxTimeouts =>
          (conn = "closed" /\ transfer.state = "Complete" /\ sent = None)

\* C19: the RRQ that opens a session moves it to Reading and is answered
\* with DATA block 1 carrying the first chunk of the file, so that ACK{1} is
\* the acknowledgement that advances past the first block.
C19_FirstBlockIsOne ==
    (conn = "open" /\ recv # None /\ Unwrap(recv).op = "RRQ") =>
        /\ transfer.state = "Reading"
        /\ transfer.block = 1
        /\ sent = Some(Data(1, transfer.data))
        /\ transfer.data.n + transfer.reader = transfer.data.rem
        /\ \A h \in handle(transfer, Ack(1)) :
              h.panicked \/ h.flow = "Closed" \/ h.transfer.block = 2

\* C20: in state Reading an ACK whose number is neither the current block
\* nor the current block minus one, and every DATA, RRQ or WRQ, is answered
\* with ERROR{IllegalOperation}; the session moves to Complete and closes.
C20_IllegalOperationInReading ==
    (conn = "open" /\ transfer.state = "Reading") =>
        \A p \in ClientPackets(transfer.block) :
            ( \/ p.op \in {"DATA", "RRQ", "WRQ"}
              \/ p.op = "ACK" /\ p.block \notin {transfer.block, transfer.block - 1} )
            => \A h \in handle(transfer, p) :
                  /\ ~h.panicked
                  /\ h.reply # None
                  /\ Unwrap(h.reply).op = "ERROR"
                  /\ Unwrap(h.reply).code = "IllegalOperation"
                  /\ h.flow = "Closed"
                  /\ h.transfer.state = "Complete"

(***************************************************************************)
(* Claims about the TFTP listener                                          *)
(***************************************************************************)
\* The bound on concurrently live TFTP sessions the specification asks for
\* (configurable; a small value here).
MaxSessions == 2

\* C21: a first datagram that is not an RRQ (ACK, DATA, ERROR or WRQ from an
\* address without session) is answered with exactly one packet,
\* ERROR{IllegalOperation, ""}, leaves no session for the address, and the
\* listener keeps running.
C21_FirstDatagramNotRrq ==
    listener = "running" =>
        \A addr \in Addrs \ DOMAIN connections :
            \A p \in {Ack(0), Data(1, NoData), Error("Undefined", ""), Wrq("ipxe.efi")} :
                \A r \in serve(connections, addr, p) :
                    /\ r.listener = "running"
                    /\ r.wire = <<SendTo(addr, Error("IllegalOperation", ""))>>
                    /\ addr \notin DOMAIN r.connections

\* C22: an RRQ for a file that is not whitelisted, or whose reader cannot be
\* created, is answered with ERROR{FileNotFound} and the session closes
\* without entering Reading.
C22_FileNotFound ==
    (conn # "new" /\ recv # None /\ Unwrap(recv).op = "RRQ"
     /\ transfer.state # "Reading") =>
        /\ conn = "closed"
        /\ sent # None
        /\ Unwrap(sent).op = "ERROR"
        /\ Unwrap(sent).code = "FileNotFound"

\* C23: a datagram that fails to parse is dropped: the listener keeps
\* running, nothing is sent and no session changes.
C23_ParseErrorDropped ==
    /\ (rin # None /\ Unwrap(rin).payload = Garbage) =>
          (listener = "running" /\ wire = <<>>)
    /\ \A addr \in Addrs : \A r \in serve(connections, addr, Garbage) :
          r.connections = connections

\* C28: the number of live TFTP sessions never exceeds the bound.
C28_SessionsBounded ==
    Cardinality(DOMAIN connections) <= MaxSessions

\* C29: DATA of a session is never sent from the listening port, and an RRQ
\* from the address of a live session leaves that session as it is.
C29_SessionOwnsPort ==
    /\ \A i \in 1..Len(wire) :
          wire[i].packet.op = "DATA" => wire[i].from # ListenPort
    /\ listener = "running" =>
          \A addr \in DOMAIN connections :
              \A r \in serve(connections, addr, Rrq("ipxe.efi")) :
                  /\ addr \in DOMAIN r.connections
                  /\ r.connections[addr] = connections[addr]

(***************************************************************************)
(* Claims about the codecs                                                 *)
(***************************************************************************)
\* C24: for every TFTP packet p whose strings hold no NUL byte,
\* Packet::parse(p.to_bytes()) succeeds and equals p; the bytes start with
\* the opcode of the variant (4 for ACK, 5 for ERROR) and every string is
\* followed by the byte 0x00.
C24_TftpRoundTrip ==
    \A i \in input : i.fn = "to_bytes" =>
        LET p == i.packet
            o == Unwrap(output)
        IN  /\ o.parsed = Some(p)
            /\ p.op = "ACK" => SubSeq(o.bytes, 1, 2) = <<0, 4>>
            /\ p.op = "ERROR" => SubSeq(o.bytes, 1, 2) = <<0, 5>>
            /\ p.op \in {"RRQ", "WRQ", "ERROR"} => o.bytes[Len(o.bytes)] = 0

\* C25: for every DHCP packet p the codec can produce, whatever the order in
\* which the options are written, DhcpPacket::parse(p.serialize()) succeeds
\* and yields the header fields and the option map of p.
C25_DhcpRoundTrip ==
    \A i \in input : i.fn = "serialize" =>
        \A o \in output : o.parsed = ParseOk(i.packet)

\* C26: DhcpPacket::parse returns an error when the buffer is shorter than
\* 236 bytes, when an option's length byte exceeds the bytes remaining, when
\* option 53 has a length other than 1, and when option 1, 50 or 54 has a
\* length other than 4.
C26_ParseErrors ==
    \A i \in input : i.fn = "parse" =>
        LET r == Unwrap(output).parsed
            last == i.tlvs[Len(i.tlvs)]
        IN  /\ Len(i.bytes) < HeaderLen => r = ParseErr
            /\ (i.tlvs # <<>> /\ last.len > Len(last.data) + Len(i.end)) => r = ParseErr
            /\ (\E k \in 1..Len(i.tlvs) : i.tlvs[k].code = 53 /\ i.tlvs[k].len # 1)
                  => r = ParseErr
            /\ (\E k \in 1..Len(i.tlvs) : i.tlvs[k].code \in {1, 50, 54} /\ i.tlvs[k].len # 4)
                  => r = ParseErr

\* C27: for a buffer of at least 236 bytes without the magic cookie at
\* offsets 236..240 (buffers of 236 to 239 bytes included), DhcpPacket::parse
\* returns a packet with the header fields of the buffer and an empty option
\* map; it neither fails nor aborts.
C27_NoCookieEmptyOptions ==
    \A i \in input :
        (/\ i.fn = "parse"
         /\ Len(i.bytes) >= HeaderLen
         /\ (Len(i.bytes) < HeaderLen + 4
               \/ SubSeq(i.bytes, HeaderLen + 1, HeaderLen + 4) # MagicCookie)) =>
            LET r == Unwrap(output).parsed
            IN  /\ r.outcome = "Ok"
                /\ r.packet.options = NoOptions
                /\ <<r.packet.op, r.packet.htype, r.packet.hlen, r.packet.hops>>
                      = SubSeq(i.bytes, 1, 4)
                /\ u32_to_be_bytes(r.packet.xid) = SubSeq(i.bytes, 5, 8)
                /\ u32_to_be_bytes(r.packet.ciaddr) = SubSeq(i.bytes, 13, 16)
                /\ u32_to_be_bytes(r.packet.yiaddr) = SubSeq(i.bytes, 17, 20)
                /\ r.packet.chaddr = SubSeq(i.bytes, 29, 34)
                /\ r.packet.sname = SubSeq(i.bytes, 45, 108)
                /\ r.packet.file = SubSeq(i.bytes, 109, HeaderLen)

(***************************************************************************)
(* Claims about the locks                                                  *)
(***************************************************************************)
\* C30: no task acquires or waits for the catalog lock while it holds the
\* pool lock, and no state is reached in which every task is blocked on a
\* lock.
C30_LockOrder ==
    /\ \A t \in Tasks : "pool" \in holding[t] => ~Waiting(t, "db")
    /\ \E t \in Tasks : ~\E l \in {"db", "pool"} : Waiting(t, l) /\ Held(l)

\* A task holds the pool lock while the catalog lock is held by a second
\* task and awaited by a third.
C30_Witness ==
    \E t, u, v \in Tasks :
        /\ "pool" \in holding[t]
        /\ u # t /\ "db" \in holding[u]
        /\ v \notin {t, u} /\ Waiting(v, "db")

(***************************************************************************)
(* Claims about the DHCP catalog and replies                               *)
(***************************************************************************)
\* C31 as stated: the catalog holds at most one interface per mac_address; a
\* DISCOVER or REQUEST from an unknown MAC creates exactly one interface and
\* one from a known MAC creates none.
C31_OneInterfacePerMac ==
    /\ \A m \in Macs : Cardinality(InterfacesOf(interfaces, m)) <= 1
    /\ pc = "serving" =>
        \A p \in Discovers \cup Requests :
            \A r \in (IF p.type = "DISCOVER" THEN handle_discover(Catalog, p)
                      ELSE handle_request(Catalog, p)) :
                Len(r.interfaces) = Len(interfaces)
                    + (IF find_interface_by_mac(interfaces, p.chaddr) = None THEN 1 ELSE 0)

\* C31 amended: the catalog holds at most one interface per mac_address; a
\* DISCOVER, or a REQUEST that names an address (option 50 or a nonzero
\* ciaddr), from an unknown MAC creates exactly one interface; a REQUEST that
\* names no address, and any DISCOVER or REQUEST from a known MAC, creates none.
C31_OneInterfacePerMacAmended ==
    /\ \A m \in Macs : Cardinality(InterfacesOf(interfaces, m)) <= 1
    /\ pc = "serving" =>
        \A p \in Discovers \cup Requests :
            \A r \in (IF p.type = "DISCOVER" THEN handle_discover(Catalog, p)
                      ELSE handle_request(Catalog, p)) :
                Len(r.interfaces) = Len(interfaces)
                    + (IF /\ find_interface_by_mac(interfaces, p.chaddr) = None
                          /\ (p.type = "DISCOVER" \/ requested_ip(p) # None)
                       THEN 1 ELSE 0)

\* Both MACs have their interface, the second one created by a REQUEST.
C31_Witness ==
    /\ Len(interfaces) = 2
    /\ packet # None
    /\ Unwrap(packet).type = "REQUEST"
    /\ interfaces[2].mac_address = Unwrap(packet).chaddr

\* C32: every OFFER sent in reply to a DISCOVER, one from a previously
\* unknown MAC included, has op = 2, chaddr echoed, siaddr = server_ip, a
\* yiaddr, options 53 and 54, and the subnet-derived options 1, 3, 6 and 51.
C32_OfferContents ==
    pc = "serving" =>
        \A p \in Discovers :
            \A r \in handle_discover(Catalog, p) :
                r.response # None =>
                    LET offer == Unwrap(r.response)
                    IN  /\ offer.op = 2
                        /\ offer.type = "OFFER"
                        /\ offer.chaddr = p.chaddr
                        /\ offer.siaddr = server_ipv4
                        /\ {1, 3, 6, 51, 53, 54} \subseteq offer.options

\* C33: the address offered to a new client in reply to a DISCOVER lies
\* strictly between the subnet's network and broadcast addresses and is never
\* the subnet's gateway address.
C33_OfferNeverGateway ==
    pc = "serving" =>
        \A p \in Discovers :
            find_interface_by_mac(interfaces, p.chaddr) = None =>
                \A r \in handle_discover(Catalog, p) :
                    r.response # None =>
                        \E i \in 1..Len(Subnets) :
                            LET s == Subnets[i]
                                network == Unwrap(s.network_ipv4)
                                yiaddr == Unwrap(r.response).yiaddr
                            IN  /\ Network(network) < yiaddr
                                /\ yiaddr < Broadcast(network)
                                /\ Some(yiaddr) # s.gateway_ipv4

\* C38: a datagram without option 53, one whose message type is INFORM,
\* OFFER, ACK or NAK, and a REQUEST with neither option 50 nor a nonzero
\* ciaddr, gets no reply and leaves interfaces, leases and the IP pool
\* unchanged.
C38_IgnoredNoEffect ==
    [][(/\ pc = "serving"
        /\ pc' = "serving"
        /\ packet' # None
        /\ LET p == Unwrap(packet')
           IN  \/ p.type \in {"none", "INFORM", "OFFER", "ACK", "NAK"}
               \/ (p.type = "REQUEST" /\ p.opt50 = None /\ p.ciaddr = Unspecified))
       => (/\ response' = None
           /\ interfaces' = interfaces
           /\ dhcp_leases' = dhcp_leases
           /\ ip_pool' = ip_pool)]_vars

\* A REQUEST that names no address, from a MAC with no interface, has been
\* handled while another client holds a lease.
C38_Witness ==
    /\ packet # None
    /\ Unwrap(packet).type = "REQUEST"
    /\ Unwrap(packet).opt50 = None
    /\ Unwrap(packet).ciaddr = Unspecified
    /\ find_interface_by_mac(interfaces, Unwrap(packet).chaddr) = None
    /\ Len(dhcp_leases) > 0
    /\ response = None

\* C40: DISCOVERs from one MAC with no REQUEST in between reserve at most one
\* pool address for it: of the addresses offered to a MAC since its last
\* REQUEST, RELEASE or DECLINE at most one is allocated, and the allocated
\* addresses are never more than the MACs that have sent DISCOVER or REQUEST
\* plus the declined addresses.
C40_OneReservationPerMac ==
    /\ \A m \in Macs :
          Cardinality({ip \in offered[m] : \E i \in 1..Len(ip_pool) :
                                               ip \in ip_pool[i].allocated}) <= 1
    /\ Cardinality(UNION {ip_pool[i].allocated : i \in 1..Len(ip_pool)})
          <= Cardinality(senders) + Cardinality(declined)

(***************************************************************************)
(* Claims about the file reader and the TFTP acknowledgements              *)
(***************************************************************************)
\* C34: each read of the file reader returns exactly the next
\* min(512, remaining) bytes of the file, so a buffer shorter than 512 bytes
\* is returned at end of file.
C34_ReaderReturnsNextBytes ==
    (conn = "open" /\ transfer.state = "Reading") =>
        LET read == Reader_read(transfer.reader)
            expected == IF transfer.reader < BlockSize THEN transfer.reader ELSE BlockSize
        IN  /\ read.data.len = expected
            /\ read.data.n = expected
            /\ read.reader = transfer.reader - expected

\* C36: in state Reading with current block B >= 1, an ACK{B-1} is answered
\* with DATA of block B and the payload last sent; the session stays in
\* Reading and the block number, the stored payload and the reader position
\* are unchanged (the reader is not read).
C36_DuplicateAckResends ==
    (conn = "open" /\ transfer.state = "Reading" /\ transfer.block >= 1) =>
        \A h \in handle(transfer, Ack(transfer.block - 1)) :
            /\ ~h.panicked
            /\ h.flow = "Continue"
            /\ h.reply = Some(Data(transfer.block, transfer.data))
            /\ h.transfer = transfer
            /\ h.reads = 0

\* C39: in handle_ack the u16 computations block + 1, block - 1 and
\* acked_block + 1 never overflow or underflow, in any reachable Reading state
\* and for any ACK number (an overflow is what panics in a debug build).
C39_AckArithmeticInRange ==
    (conn = "open" /\ transfer.state = "Reading") =>
        \A n \in AckNumbers(transfer.block) :
            ~handle_ack_build(transfer, n, "debug").panicked

(***************************************************************************)
(* Claims about the catalog file                                           *)
(***************************************************************************)
\* C35: register_device is an upsert: for a uuid that is registered already
\* it succeeds, leaves exactly one device with that uuid and changes no other
\* uuid's being known; a uuid that is not registered is not known.
C35_RegisterDeviceUpsert ==
    /\ db_call # None =>
          LET c == Unwrap(db_call)
          IN  /\ c.ok
              /\ is_device_known(devices, c.uuid)
    /\ \A uuid \in Uuids :
          Cardinality({i \in 1..Len(devices) : devices[i].uuid = uuid}) <= 1
    /\ db_pc = "open" =>
          \A uuid \in Uuids :
              \A r \in {register_device(devices, uuid),
                        DirectorStore_register_device(devices, uuid)} :
                  /\ r.ok
                  /\ \A other \in Uuids \ {uuid} :
                        is_device_known(r.devices, other) = is_device_known(devices, other)

\* C37: the stored version is persisted atomically with each migration: at
\* every point where the process can stop, stored version = v implies that
\* exactly the migrations 1..v have been applied, each once and in ascending
\* order, and an opened database has stored version = LATEST_VERSION.
C37_MigrationsAtomic ==
    /\ migrations.version # None =>
          applied = [i \in 1..Unwrap(migrations.version) |-> i]
    /\ db_pc = "open" => migrations.version = Some(LATEST_VERSION)

=============================================================================
